---- MODULE Spec2Model ----
(***************************************************************************)
(* Disk-resident B+ tree index over a paged file: the Pager (pager.go) and *)
(* the page-based tree (btree.go).  A page is modelled by its header       *)
(* fields and by the 8-byte words of its payload; words are stored as      *)
(* unsigned two's-complement values and read back signed, as the code's    *)
(* uint64(x) / int(Uint64(..)) conversions do.                             *)
(***************************************************************************)
EXTENDS Integers, Sequences, FiniteSets, TLC

(* ------------------------------ bounds --------------------------------- *)
\* largest degree the tree is constructed with (the smallest is MinDegree)
MaxDegree == 4
\* keys offered to Insert are 1..MaxKey
MaxKey == 5
\* width in bits of a stored word (64 in the source)
WordBits == 16
\* Insert is called only while the file has fewer than MaxPages pages
MaxPages == 5
MaxFail == 14
MaxFailures == 1
MaxReadFail == 3
MaxPagerPages == 4

(* ------------------------- program constants --------------------------- *)
PageSize == 4096
headerSize == 32
NodeTypeLeaf == 0
NodeTypeInternal == 1
MinDegree == 3

Keys == 1..MaxKey
Values == {100, 200}
Degrees == MinDegree..MaxDegree

\* number of payload words kept per page: a full internal node of degree
\* MaxDegree has 2*MaxDegree - 1 words; every later byte of the 4096-byte
\* page stays zero
PayloadWords == 2 * MaxDegree
PageEnd == headerSize + 8 * PayloadWords

Mod == 2 ^ WordBits
\* uint64(x): the stored bit pattern of a signed value
U64(x) == x % Mod
\* int(u) / int64(u) / PageID(u): the signed value of a stored bit pattern
I64(u) == IF u >= Mod \div 2 THEN u - Mod ELSE u
\* uint16(n)
U16(n) == n % 65536

Min(a, b) == IF a < b THEN a ELSE b
Max(a, b) == IF a > b THEN a ELSE b

(* ------------------------------- pages --------------------------------- *)
\* new(Page): all bytes zero
NewPage ==
  [nodeType |-> 0, isRoot |-> 0, parent |-> 0, numKeys |-> 0, nextLeaf |-> 0,
   payload |-> [w \in 0..(PayloadWords - 1) |-> 0]]

isLeaf(page) == page.nodeType = NodeTypeLeaf
getNumKeys(page) == page.numKeys
setNumKeys(page, numKeys) == [page EXCEPT !.numKeys = U16(numKeys)]
getNextLeafPageID(page) == I64(page.nextLeaf)
\* setNextLeafPageID leaving the field as it was
setNextLeafPageID_NotStored(page, pageID) == page
setNextLeafPageID(page, pageID) == [page EXCEPT !.nextLeaf = U64(pageID)]
isRoot(page) == page.isRoot = 1
setIsRoot(page, b) == [page EXCEPT !.isRoot = IF b THEN 1 ELSE 0]
getParentPageID(page) == I64(page.parent)
setParentPageID(page, pageID) == [page EXCEPT !.parent = U64(pageID)]
setNodeType(page, t) == [page EXCEPT !.nodeType = t]

\* binary.LittleEndian.Uint64(page[off:]) for a payload offset
WordOf(off) == (off - headerSize) \div 8
GetU64(page, off) == page.payload[WordOf(off)]
\* binary.LittleEndian.PutUint64(page[off:], v)
PutU64(page, off, v) == [page EXCEPT !.payload[WordOf(off)] = v]
\* clear(page[headerSize:])
ClearPayload(page) == [page EXCEPT !.payload = [w \in 0..(PayloadWords - 1) |-> 0]]
\* copy(page[dst:], page[src:srcEnd]): memmove of min(len(dst), len(src)) bytes
CopyWithin(page, dst, src, srcEnd) ==
  LET n == Min(WordOf(PageEnd) - WordOf(dst), WordOf(srcEnd) - WordOf(src))
      d == WordOf(dst)
      s == WordOf(src)
  IN [page EXCEPT !.payload =
        [w \in 0..(PayloadWords - 1) |->
           IF w >= d /\ w < d + n THEN page.payload[s + (w - d)]
           ELSE page.payload[w]]]

\* the child page ids an internal page lists (none for a leaf page)
ChildrenOf(page) ==
  IF page.nodeType = NodeTypeLeaf THEN {}
  ELSE {I64(page.payload[2 * i]) : i \in 0..page.numKeys}

\* an entry of the event log: a page read, a page write or an allocation,
\* the page id, whether the call returned without error and, for a write
\* of an internal page, the children the written page lists
Event(ev, id, ok, children) ==
  [ev |-> ev, id |-> id, ok |-> ok, children |-> children, parent |-> -1,
   next |-> -1]

\* the event of WritePage(id, page): with the children the page lists, the
\* parent_page_id and the next_leaf_page_id it carries as it is written
WriteEvent(id, ok, page) ==
  [ev |-> "write", id |-> id, ok |-> ok, children |-> ChildrenOf(page),
   parent |-> getParentPageID(page), next |-> getNextLeafPageID(page)]

(* ------------------------------- Pager --------------------------------- *)
\* A pager value m carries the file (disk: the pages physically in the
\* file, page id i at index i+1), the Pager's fileSize and numPages, the
\* number of file-system calls made so far in the running operation (io),
\* the ordinal of the file-system call that fails (failAt, 0 = none) and
\* the log of page-level events of the running operation.
NewPager(disk) ==
  [disk |-> disk, fileSize |-> Len(disk) * PageSize,
   numPages |-> (Len(disk) * PageSize) \div PageSize,
   io |-> 0, failAt |-> 0, log |-> << >>]

Fails(m) == m.failAt # 0 /\ m.io + 1 = m.failAt

\* ReadPage without the test of lines 46-48
ReadPage_NoGuard(m, pageID, pageData) ==
  IF Fails(m) \/ pageID < 0 \/ pageID >= Len(m.disk)
  THEN [m |-> [m EXCEPT !.io = @ + 1,
                        !.log = Append(@, Event("read", pageID, FALSE, {}))],
        page |-> pageData, err |-> "IoRead"]
  ELSE [m |-> [m EXCEPT !.io = @ + 1,
                        !.log = Append(@, Event("read", pageID, TRUE, {}))],
        page |-> m.disk[pageID + 1], err |-> "nil"]

ReadPage(m, pageID, pageData) ==
  LET offset == pageID * PageSize IN
  IF offset >= m.fileSize
  THEN [m |-> [m EXCEPT !.log = Append(@, Event("read", pageID, FALSE, {}))],
        page |-> pageData, err |-> "ReadPastEnd"]
  ELSE IF Fails(m) \/ pageID < 0 \/ pageID >= Len(m.disk)
  THEN [m |-> [m EXCEPT !.io = @ + 1,
                        !.log = Append(@, Event("read", pageID, FALSE, {}))],
        page |-> pageData, err |-> "IoRead"]
  ELSE [m |-> [m EXCEPT !.io = @ + 1,
                        !.log = Append(@, Event("read", pageID, TRUE, {}))],
        page |-> m.disk[pageID + 1], err |-> "nil"]

\* file.WriteAt at page index pageID: a write past the end extends the file,
\* the gap reading as zeroes
WriteAt(disk, pageID, pageData) ==
  [i \in 1..(IF pageID + 1 > Len(disk) THEN pageID + 1 ELSE Len(disk)) |->
     IF i = pageID + 1 THEN pageData
     ELSE IF i <= Len(disk) THEN disk[i] ELSE NewPage]

\* WritePage counting one more page on every write (line 62 as numPages++)
WritePage_CountsAgain(m, pageID, pageData) ==
  LET offset == pageID * PageSize IN
  IF Fails(m) \/ pageID < 0
  THEN [m |-> [m EXCEPT !.io = @ + 1,
                        !.log = Append(@, WriteEvent(pageID, FALSE, pageData))],
        err |-> "IoWrite"]
  ELSE LET grown == offset + PageSize > m.fileSize
           m1 == [m EXCEPT !.io = @ + 1,
                           !.disk = WriteAt(@, pageID, pageData),
                           !.fileSize = IF grown THEN offset + PageSize ELSE @,
                           !.numPages = @ + 1]
       IN IF Fails(m1)
          THEN [m |-> [m1 EXCEPT !.io = @ + 1,
                          !.log = Append(@, WriteEvent(pageID, FALSE, pageData))],
                err |-> "IoWrite"]
          ELSE [m |-> [m1 EXCEPT !.io = @ + 1,
                          !.log = Append(@, WriteEvent(pageID, TRUE, pageData))],
                err |-> "nil"]

WritePage(m, pageID, pageData) ==
  LET offset == pageID * PageSize IN
  IF Fails(m) \/ pageID < 0
  THEN [m |-> [m EXCEPT !.io = @ + 1,
                        !.log = Append(@, WriteEvent(pageID, FALSE, pageData))],
        err |-> "IoWrite"]
  ELSE LET grown == offset + PageSize > m.fileSize
           m1 == [m EXCEPT !.io = @ + 1,
                           !.disk = WriteAt(@, pageID, pageData),
                           !.fileSize = IF grown THEN offset + PageSize ELSE @,
                           !.numPages = IF grown THEN (offset + PageSize) \div PageSize ELSE @]
       IN IF Fails(m1)
          THEN [m |-> [m1 EXCEPT !.io = @ + 1,
                          !.log = Append(@, WriteEvent(pageID, FALSE, pageData))],
                err |-> "IoWrite"]
          ELSE [m |-> [m1 EXCEPT !.io = @ + 1,
                          !.log = Append(@, WriteEvent(pageID, TRUE, pageData))],
                err |-> "nil"]

\* AllocatePage without line 73: the tracked file size is not advanced
AllocatePage_SizeKept(m) ==
  [m |-> [m EXCEPT !.numPages = @ + 1,
                   !.log = Append(@, Event("alloc", m.numPages, TRUE, {}))],
   pageID |-> m.numPages]

AllocatePage(m) ==
  [m |-> [m EXCEPT !.numPages = @ + 1, !.fileSize = @ + PageSize,
                   !.log = Append(@, Event("alloc", m.numPages, TRUE, {}))],
   pageID |-> m.numPages]

(* ---------------------------- construction ----------------------------- *)
\* NewBPlusTree for degree >= 3: the pager after construction and the tree
\* no tree: what is left of the handle when the constructor panics
NoTree == [rootPageID |-> -1, degree |-> 0]

\* NewBPlusTree leaving is_root of the page it writes at 0 (without line 42)
NewBPlusTree_RootNotMarked(m, degree) ==
  IF degree < MinDegree THEN [m |-> m, tree |-> NoTree, err |-> "panic"]
  ELSE IF m.numPages = 0
  THEN LET rootPageData ==
             setNextLeafPageID(
               setNumKeys(
                 setParentPageID(setNodeType(NewPage, NodeTypeLeaf), -1), 0), -1)
       IN [m |-> WritePage(m, 0, rootPageData).m,
           tree |-> [rootPageID |-> 0, degree |-> degree], err |-> "nil"]
  ELSE [m |-> m, tree |-> [rootPageID |-> 0, degree |-> degree], err |-> "nil"]

NewBPlusTree(m, degree) ==
  IF degree < MinDegree THEN [m |-> m, tree |-> NoTree, err |-> "panic"]
  ELSE IF m.numPages = 0
  THEN LET rootPageData ==
             setNextLeafPageID(
               setNumKeys(
                 setParentPageID(
                   setIsRoot(setNodeType(NewPage, NodeTypeLeaf), TRUE), -1), 0), -1)
       IN [m |-> WritePage(m, 0, rootPageData).m,
           tree |-> [rootPageID |-> 0, degree |-> degree], err |-> "nil"]
  ELSE [m |-> m, tree |-> [rootPageID |-> 0, degree |-> degree], err |-> "nil"]

(* ------------------------------- search -------------------------------- *)
\* the loop of findLeafPage at lines 149-156: the first i with key < K(i+1)
RECURSIVE ChildIndex(_, _, _, _)
ChildIndex(page, key, i, numKeys) ==
  IF i < numKeys /\ ~(key < I64(GetU64(page, headerSize + i * (8 + 8) + 8)))
  THEN ChildIndex(page, key, i + 1, numKeys)
  ELSE i

\* findLeafPage; fuel is the number of pages that may still be visited:
\* a descent that visits more pages than the file tracks is on a cycle
\* and the source's loop does not return
RECURSIVE findLeafFrom(_, _, _, _)
findLeafFrom(m, currentPageID, key, fuel) ==
  LET r == ReadPage(m, currentPageID, NewPage) IN
  IF r.err # "nil" THEN [m |-> r.m, pageID |-> -1, err |-> r.err]
  ELSE IF isLeaf(r.page) THEN [m |-> r.m, pageID |-> currentPageID, err |-> "nil"]
  ELSE IF fuel = 0 THEN [m |-> r.m, pageID |-> -1, err |-> "diverges"]
  ELSE LET numKeys == getNumKeys(r.page)
           i == ChildIndex(r.page, key, 0, numKeys)
           offset == headerSize + i * (8 + 8)
       IN findLeafFrom(r.m, I64(GetU64(r.page, offset)), key, fuel - 1)

findLeafPage(m, t, key) == findLeafFrom(m, t.rootPageID, key, m.numPages)

\* the scan of Search taking the first key not below the probe for a match
\* (line 95 with >= for ==)
RECURSIVE ScanLeaf_FirstNotLess(_, _, _, _)
ScanLeaf_FirstNotLess(page, key, i, numKeys) ==
  IF i >= numKeys THEN [offset |-> 0, found |-> FALSE]
  ELSE IF I64(GetU64(page, headerSize + i * (8 + 8))) >= key
  THEN [offset |-> I64(GetU64(page, headerSize + i * (8 + 8) + 8)), found |-> TRUE]
  ELSE ScanLeaf_FirstNotLess(page, key, i + 1, numKeys)

\* the scan of Search at lines 93-98
RECURSIVE ScanLeaf(_, _, _, _)
ScanLeaf(page, key, i, numKeys) ==
  IF i >= numKeys THEN [offset |-> 0, found |-> FALSE]
  ELSE IF I64(GetU64(page, headerSize + i * (8 + 8))) = key
  THEN [offset |-> I64(GetU64(page, headerSize + i * (8 + 8) + 8)), found |-> TRUE]
  ELSE ScanLeaf(page, key, i + 1, numKeys)

\* Search writing the leaf it has read back to the file
Search_WritesBack(m, t, key) ==
  LET f == findLeafPage(m, t, key) IN
  IF f.err # "nil" THEN [m |-> f.m, offset |-> 0, found |-> FALSE, err |-> f.err]
  ELSE LET r == ReadPage(f.m, f.pageID, NewPage) IN
       IF r.err # "nil" THEN [m |-> r.m, offset |-> 0, found |-> FALSE, err |-> r.err]
       ELSE LET s == ScanLeaf(r.page, key, 0, getNumKeys(r.page))
                w == WritePage(r.m, f.pageID, r.page)
            IN [m |-> w.m, offset |-> s.offset, found |-> s.found, err |-> "nil"]

Search(m, t, key) ==
  LET f == findLeafPage(m, t, key) IN
  IF f.err # "nil" THEN [m |-> f.m, offset |-> 0, found |-> FALSE, err |-> f.err]
  ELSE LET r == ReadPage(f.m, f.pageID, NewPage) IN
       IF r.err # "nil" THEN [m |-> r.m, offset |-> 0, found |-> FALSE, err |-> r.err]
       ELSE LET s == ScanLeaf(r.page, key, 0, getNumKeys(r.page))
            IN [m |-> r.m, offset |-> s.offset, found |-> s.found, err |-> "nil"]

\* the inner loop of SearchRange at lines 118-128 over one leaf page
RECURSIVE RangeLeaf(_, _, _, _, _, _)
RangeLeaf(page, startKey, endKey, i, numKeys, results) ==
  IF i >= numKeys THEN [results |-> results, foundEnd |-> FALSE]
  ELSE LET currentKey == I64(GetU64(page, headerSize + i * (8 + 8))) IN
       IF currentKey > endKey THEN [results |-> results, foundEnd |-> TRUE]
       ELSE RangeLeaf(page, startKey, endKey, i + 1, numKeys,
                      IF currentKey >= startKey
                      THEN Append(results, I64(GetU64(page, headerSize + i * (8 + 8) + 8)))
                      ELSE results)

\* the outer loop of SearchRange at lines 111-133; fuel as in findLeafFrom
RECURSIVE RangeWalk(_, _, _, _, _, _)
RangeWalk(m, leafPageID, startKey, endKey, results, fuel) ==
  IF leafPageID = -1 THEN [m |-> m, results |-> results, err |-> "nil"]
  ELSE LET r == ReadPage(m, leafPageID, NewPage) IN
       IF r.err # "nil" THEN [m |-> r.m, results |-> << >>, err |-> r.err]
       ELSE IF fuel = 0 THEN [m |-> r.m, results |-> << >>, err |-> "diverges"]
       ELSE LET s == RangeLeaf(r.page, startKey, endKey, 0, getNumKeys(r.page), results) IN
            IF s.foundEnd THEN [m |-> r.m, results |-> s.results, err |-> "nil"]
            ELSE RangeWalk(r.m, getNextLeafPageID(r.page), startKey, endKey,
                           s.results, fuel - 1)

\* SearchRange without the test of lines 103-105
SearchRange_NoGuard(m, t, startKey, endKey) ==
  LET f == findLeafPage(m, t, startKey) IN
  IF f.err # "nil" THEN [m |-> f.m, results |-> << >>, err |-> f.err]
  ELSE RangeWalk(f.m, f.pageID, startKey, endKey, << >>, m.numPages)

SearchRange(m, t, startKey, endKey) ==
  IF startKey > endKey THEN [m |-> m, results |-> << >>, err |-> "nil"]
  ELSE LET f == findLeafPage(m, t, startKey) IN
       IF f.err # "nil" THEN [m |-> f.m, results |-> << >>, err |-> f.err]
       ELSE RangeWalk(f.m, f.pageID, startKey, endKey, << >>, m.numPages)

(* ------------------------------- insert -------------------------------- *)
\* the loop of insertIntoLeaf at lines 199-202
RECURSIVE LeafInsertIndex(_, _, _, _)
LeafInsertIndex(page, key, insertIndex, numKeys) ==
  IF insertIndex < numKeys /\ key > I64(GetU64(page, headerSize + insertIndex * 16))
  THEN LeafInsertIndex(page, key, insertIndex + 1, numKeys)
  ELSE insertIndex

insertIntoLeaf(page, key, value) ==
  LET numKeys == getNumKeys(page)
      insertIndex == LeafInsertIndex(page, key, 0, numKeys)
      shifted == CopyWithin(page, headerSize + (insertIndex + 1) * 16,
                            headerSize + insertIndex * 16, headerSize + numKeys * 16)
      offset == headerSize + insertIndex * 16
  IN setNumKeys(PutU64(PutU64(shifted, offset, U64(key)), offset + 8, U64(value)),
                numKeys + 1)

\* append(s[:i], append([]T{x}, s[i:]...)...) with a 0-based index i
InsertAt(s, i, x) == SubSeq(s, 1, i) \o << x >> \o SubSeq(s, i + 1, Len(s))

\* the loop of lines 225-239 with the new entry always put last: the
\* temporary sequence is not in key order
MergeLeaf_NewEntryLast(oldPage, key, value, i, numKeys, inserted, temp) ==
  Append([j \in 1..numKeys |->
            << I64(GetU64(oldPage, headerSize + (j - 1) * 16)),
               I64(GetU64(oldPage, headerSize + (j - 1) * 16 + 8)) >>],
         << key, value >>)

\* the loop of splitAndInsertLeaf at lines 225-239: the entries of the old
\* page with (key, value) put before the first entry whose key is greater
RECURSIVE MergeLeaf(_, _, _, _, _, _, _)
MergeLeaf(oldPage, key, value, i, numKeys, inserted, temp) ==
  IF i >= numKeys
  THEN IF inserted THEN temp ELSE Append(temp, << key, value >>)
  ELSE LET offset == headerSize + i * 16
           currentKey == I64(GetU64(oldPage, offset))
           here == ~inserted /\ key < currentKey
           temp1 == IF here THEN Append(temp, << key, value >>) ELSE temp
       IN MergeLeaf(oldPage, key, value, i + 1, numKeys, inserted \/ here,
                    Append(temp1, << currentKey, I64(GetU64(oldPage, offset + 8)) >>))

\* the loops at lines 251-255 and 258-262: entry i at headerSize + i*16
RECURSIVE PutLeafEntries(_, _, _)
PutLeafEntries(page, entries, i) ==
  IF i >= Len(entries) THEN page
  ELSE LET offset == headerSize + i * 16
       IN PutLeafEntries(PutU64(PutU64(page, offset, U64(entries[i + 1][1])),
                                offset + 8, U64(entries[i + 1][2])),
                         entries, i + 1)

\* the loops at lines 374-379 and 383-388: P0, then (Ki, Pi)
RECURSIVE PutInternalEntries(_, _, _, _)
PutInternalEntries(page, keys, pointers, i) ==
  IF i >= Len(keys) THEN page
  ELSE LET offset == headerSize + i * 16 + 8
       IN PutInternalEntries(PutU64(PutU64(page, offset, U64(keys[i + 1])),
                                    offset + 8, U64(pointers[i + 2])),
                             keys, pointers, i + 1)

\* the loop of insertIntoParent at lines 316-322
RECURSIVE ParentInsertIndex(_, _, _, _)
ParentInsertIndex(parentPage, key, insertIndex, numKeys) ==
  IF insertIndex < numKeys
     /\ ~(key < I64(GetU64(parentPage, headerSize + insertIndex * 16 + 8)))
  THEN ParentInsertIndex(parentPage, key, insertIndex + 1, numKeys)
  ELSE insertIndex

\* the splice with line 331 adding two to the key count
SpliceIntoParent_CountedTwice(parentPage, key, rightChildID) ==
  LET numKeys == getNumKeys(parentPage)
      insertIndex == ParentInsertIndex(parentPage, key, 0, numKeys)
      keyStart == headerSize + insertIndex * 16 + 8
      ptrStart == keyStart - 8
      shifted == CopyWithin(parentPage, ptrStart + 32, ptrStart + 16, PageEnd)
  IN setNumKeys(PutU64(PutU64(shifted, keyStart, U64(key)),
                       keyStart + 8, U64(rightChildID)),
                numKeys + 2)

\* lines 324-331: splice (key, rightChildID) into a parent that has room
SpliceIntoParent(parentPage, key, rightChildID) ==
  LET numKeys == getNumKeys(parentPage)
      insertIndex == ParentInsertIndex(parentPage, key, 0, numKeys)
      keyStart == headerSize + insertIndex * 16 + 8
      ptrStart == keyStart - 8
      shifted == CopyWithin(parentPage, ptrStart + 32, ptrStart + 16, PageEnd)
  IN setNumKeys(PutU64(PutU64(shifted, keyStart, U64(key)),
                       keyStart + 8, U64(rightChildID)),
                numKeys + 1)

\* the loop at lines 356-358
RECURSIVE TempInsertIndex(_, _, _)
TempInsertIndex(tempKeys, key, insertIndex) ==
  IF insertIndex < Len(tempKeys) /\ key > tempKeys[insertIndex + 1]
  THEN TempInsertIndex(tempKeys, key, insertIndex + 1)
  ELSE insertIndex

\* ReparentChildren without the loop: the moved children keep the parent id
\* of the page that split
ReparentChildren_Skipped(m, rightPointers, i, newPageID) == m

\* the loop at lines 391-395: errors of the read and of the write are dropped
RECURSIVE ReparentChildren(_, _, _, _)
ReparentChildren(m, rightPointers, i, newPageID) ==
  IF i > Len(rightPointers) THEN m
  ELSE LET r == ReadPage(m, rightPointers[i], NewPage)
           childPage == setParentPageID(r.page, newPageID)
           w == WritePage(r.m, rightPointers[i], childPage)
       IN ReparentChildren(w.m, rightPointers, i + 1, newPageID)

\* NewRoot without line 282: the new root page keeps node type 0 (leaf)
NewRoot_TypeNotSet(m, t, leftChildID, key, rightChildID) ==
  LET a == AllocatePage(m)
      newRootPageID == a.pageID
      newRootPage ==
        PutU64(PutU64(PutU64(
          setNumKeys(setParentPageID(setIsRoot(NewPage, TRUE), -1), 1),
          headerSize, U64(leftChildID)),
          headerSize + 8, U64(key)),
          headerSize + 16, U64(rightChildID))
      rl == ReadPage(a.m, leftChildID, NewPage)
      leftChildPage == setParentPageID(setIsRoot(rl.page, FALSE), newRootPageID)
      wl == WritePage(rl.m, leftChildID, leftChildPage)
      rr == ReadPage(wl.m, rightChildID, NewPage)
      rightChildPage == setParentPageID(setIsRoot(rr.page, FALSE), newRootPageID)
      wr == WritePage(rr.m, rightChildID, rightChildPage)
      wn == WritePage(wr.m, newRootPageID, newRootPage)
  IN IF wn.err # "nil" THEN [m |-> wn.m, tree |-> t, err |-> wn.err]
     ELSE [m |-> wn.m, tree |-> [t EXCEPT !.rootPageID = newRootPageID], err |-> "nil"]

\* lines 279-306: the split page was the root
NewRoot(m, t, leftChildID, key, rightChildID) ==
  LET a == AllocatePage(m)
      newRootPageID == a.pageID
      newRootPage ==
        PutU64(PutU64(PutU64(
          setNumKeys(setParentPageID(setIsRoot(
            setNodeType(NewPage, NodeTypeInternal), TRUE), -1), 1),
          headerSize, U64(leftChildID)),
          headerSize + 8, U64(key)),
          headerSize + 16, U64(rightChildID))
      rl == ReadPage(a.m, leftChildID, NewPage)
      leftChildPage == setParentPageID(setIsRoot(rl.page, FALSE), newRootPageID)
      wl == WritePage(rl.m, leftChildID, leftChildPage)
      rr == ReadPage(wl.m, rightChildID, NewPage)
      rightChildPage == setParentPageID(setIsRoot(rr.page, FALSE), newRootPageID)
      wr == WritePage(rr.m, rightChildID, rightChildPage)
      wn == WritePage(wr.m, newRootPageID, newRootPage)
  IN IF wn.err # "nil" THEN [m |-> wn.m, tree |-> t, err |-> wn.err]
     ELSE [m |-> wn.m, tree |-> [t EXCEPT !.rootPageID = newRootPageID], err |-> "nil"]

\* insertIntoParent splitting a full parent one key too far to the right
\* (line 364 with t.degree/2 + 1)
RECURSIVE insertIntoParent_SplitLate(_, _, _, _, _, _)
insertIntoParent_SplitLate(m, t, parentPageID, leftChildID, key, rightChildID) ==
  IF parentPageID = -1 THEN NewRoot(m, t, leftChildID, key, rightChildID)
  ELSE
  LET rp == ReadPage(m, parentPageID, NewPage) IN
  IF rp.err # "nil" THEN [m |-> rp.m, tree |-> t, err |-> rp.err]
  ELSE
  LET parentPage == rp.page
      numKeys == getNumKeys(parentPage)
  IN
  IF numKeys < t.degree - 1
  THEN LET w == WritePage(rp.m, parentPageID,
                          SpliceIntoParent(parentPage, key, rightChildID))
       IN [m |-> w.m, tree |-> t, err |-> w.err]
  ELSE
  LET a == AllocatePage(rp.m)
      newPageID == a.pageID
      newPage0 == setParentPageID(setNodeType(NewPage, NodeTypeInternal),
                                  getParentPageID(parentPage))
      tempKeys0 == [i \in 1..numKeys |->
                      I64(GetU64(parentPage, headerSize + (i - 1) * 16 + 8))]
      tempPointers0 == << I64(GetU64(parentPage, headerSize)) >> \o
                       [i \in 1..numKeys |->
                          I64(GetU64(parentPage, headerSize + (i - 1) * 16 + 16))]
      insertIndex == TempInsertIndex(tempKeys0, key, 0)
      tempKeys == InsertAt(tempKeys0, insertIndex, key)
      tempPointers == InsertAt(tempPointers0, insertIndex + 1, rightChildID)
      splitPoint == t.degree \div 2 + 1
      keyToPromoteAgain == tempKeys[splitPoint + 1]
      leftKeys == SubSeq(tempKeys, 1, splitPoint)
      rightKeys == SubSeq(tempKeys, splitPoint + 2, Len(tempKeys))
      leftPointers == SubSeq(tempPointers, 1, splitPoint + 1)
      rightPointers == SubSeq(tempPointers, splitPoint + 2, Len(tempPointers))
      parentPage1 ==
        PutInternalEntries(
          PutU64(setNumKeys(ClearPayload(parentPage), Len(leftKeys)),
                 headerSize, U64(leftPointers[1])),
          leftKeys, leftPointers, 0)
      newPage ==
        PutInternalEntries(
          PutU64(setNumKeys(newPage0, Len(rightKeys)),
                 headerSize, U64(rightPointers[1])),
          rightKeys, rightPointers, 0)
      m1 == ReparentChildren(a.m, rightPointers, 1, newPageID)
      wp == WritePage(m1, parentPageID, parentPage1)
  IN
  IF wp.err # "nil" THEN [m |-> wp.m, tree |-> t, err |-> wp.err]
  ELSE
  LET wn == WritePage(wp.m, newPageID, newPage) IN
  IF wn.err # "nil" THEN [m |-> wn.m, tree |-> t, err |-> wn.err]
  ELSE insertIntoParent_SplitLate(wn.m, t, getParentPageID(parentPage1), parentPageID,
                        keyToPromoteAgain, newPageID)

RECURSIVE insertIntoParent(_, _, _, _, _, _)
insertIntoParent(m, t, parentPageID, leftChildID, key, rightChildID) ==
  IF parentPageID = -1 THEN NewRoot(m, t, leftChildID, key, rightChildID)
  ELSE
  LET rp == ReadPage(m, parentPageID, NewPage) IN
  IF rp.err # "nil" THEN [m |-> rp.m, tree |-> t, err |-> rp.err]
  ELSE
  LET parentPage == rp.page
      numKeys == getNumKeys(parentPage)
  IN
  IF numKeys < t.degree - 1
  THEN LET w == WritePage(rp.m, parentPageID,
                          SpliceIntoParent(parentPage, key, rightChildID))
       IN [m |-> w.m, tree |-> t, err |-> w.err]
  ELSE
  LET a == AllocatePage(rp.m)
      newPageID == a.pageID
      newPage0 == setParentPageID(setNodeType(NewPage, NodeTypeInternal),
                                  getParentPageID(parentPage))
      tempKeys0 == [i \in 1..numKeys |->
                      I64(GetU64(parentPage, headerSize + (i - 1) * 16 + 8))]
      tempPointers0 == << I64(GetU64(parentPage, headerSize)) >> \o
                       [i \in 1..numKeys |->
                          I64(GetU64(parentPage, headerSize + (i - 1) * 16 + 16))]
      insertIndex == TempInsertIndex(tempKeys0, key, 0)
      tempKeys == InsertAt(tempKeys0, insertIndex, key)
      tempPointers == InsertAt(tempPointers0, insertIndex + 1, rightChildID)
      splitPoint == t.degree \div 2
      keyToPromoteAgain == tempKeys[splitPoint + 1]
      leftKeys == SubSeq(tempKeys, 1, splitPoint)
      rightKeys == SubSeq(tempKeys, splitPoint + 2, Len(tempKeys))
      leftPointers == SubSeq(tempPointers, 1, splitPoint + 1)
      rightPointers == SubSeq(tempPointers, splitPoint + 2, Len(tempPointers))
      parentPage1 ==
        PutInternalEntries(
          PutU64(setNumKeys(ClearPayload(parentPage), Len(leftKeys)),
                 headerSize, U64(leftPointers[1])),
          leftKeys, leftPointers, 0)
      newPage ==
        PutInternalEntries(
          PutU64(setNumKeys(newPage0, Len(rightKeys)),
                 headerSize, U64(rightPointers[1])),
          rightKeys, rightPointers, 0)
      m1 == ReparentChildren(a.m, rightPointers, 1, newPageID)
      wp == WritePage(m1, parentPageID, parentPage1)
  IN
  IF wp.err # "nil" THEN [m |-> wp.m, tree |-> t, err |-> wp.err]
  ELSE
  LET wn == WritePage(wp.m, newPageID, newPage) IN
  IF wn.err # "nil" THEN [m |-> wn.m, tree |-> t, err |-> wn.err]
  ELSE insertIntoParent(wn.m, t, getParentPageID(parentPage1), parentPageID,
                        keyToPromoteAgain, newPageID)

\* splitAndInsertLeaf handing the promoted key to the parent before it
\* writes the new leaf (lines 270-272 after line 274)
splitAndInsertLeaf_ParentFirst(m, t, oldPageID, oldPage, key, value) ==
  LET a == AllocatePage(m)
      newPageID == a.pageID
      newPage0 == setParentPageID(setNodeType(NewPage, NodeTypeLeaf),
                                  getParentPageID(oldPage))
      numKeys == getNumKeys(oldPage)
      temp == MergeLeaf(oldPage, key, value, 0, numKeys, FALSE, << >>)
      splitPoint == t.degree \div 2
      left == SubSeq(temp, 1, splitPoint)
      right == SubSeq(temp, splitPoint + 1, Len(temp))
      keyToPromote == right[1][1]
      oldPage1 == PutLeafEntries(setNumKeys(ClearPayload(oldPage), Len(left)), left, 0)
      newPage1 == PutLeafEntries(setNumKeys(newPage0, Len(right)), right, 0)
      newPage == setNextLeafPageID(newPage1, getNextLeafPageID(oldPage1))
      oldPage2 == setNextLeafPageID(oldPage1, newPageID)
      wo == WritePage(a.m, oldPageID, oldPage2)
  IN
  IF wo.err # "nil" THEN [m |-> wo.m, tree |-> t, err |-> wo.err]
  ELSE
  LET ip == insertIntoParent(wo.m, t, getParentPageID(oldPage2), oldPageID,
                             keyToPromote, newPageID)
  IN
  IF ip.err # "nil" THEN ip
  ELSE LET wn == WritePage(ip.m, newPageID, newPage)
       IN [m |-> wn.m, tree |-> ip.tree, err |-> wn.err]

splitAndInsertLeaf(m, t, oldPageID, oldPage, key, value) ==
  LET a == AllocatePage(m)
      newPageID == a.pageID
      newPage0 == setParentPageID(setNodeType(NewPage, NodeTypeLeaf),
                                  getParentPageID(oldPage))
      numKeys == getNumKeys(oldPage)
      temp == MergeLeaf(oldPage, key, value, 0, numKeys, FALSE, << >>)
      splitPoint == t.degree \div 2
      left == SubSeq(temp, 1, splitPoint)
      right == SubSeq(temp, splitPoint + 1, Len(temp))
      keyToPromote == right[1][1]
      oldPage1 == PutLeafEntries(setNumKeys(ClearPayload(oldPage), Len(left)), left, 0)
      newPage1 == PutLeafEntries(setNumKeys(newPage0, Len(right)), right, 0)
      newPage == setNextLeafPageID(newPage1, getNextLeafPageID(oldPage1))
      oldPage2 == setNextLeafPageID(oldPage1, newPageID)
      wo == WritePage(a.m, oldPageID, oldPage2)
  IN
  IF wo.err # "nil" THEN [m |-> wo.m, tree |-> t, err |-> wo.err]
  ELSE
  LET wn == WritePage(wo.m, newPageID, newPage) IN
  IF wn.err # "nil" THEN [m |-> wn.m, tree |-> t, err |-> wn.err]
  ELSE insertIntoParent(wn.m, t, getParentPageID(oldPage2), oldPageID,
                        keyToPromote, newPageID)

\* the duplicate check of Insert at lines 179-184
HasKey(leafPage, key) ==
  \E i \in 0..(getNumKeys(leafPage) - 1) :
     I64(GetU64(leafPage, headerSize + i * 16)) = key

\* Insert with the duplicate check placed after the leaf has been rewritten:
\* a duplicate key has its entry added and the page written before the
\* error is returned
Insert_CheckAfterWrite(m, t, key, value) ==
  LET f == findLeafPage(m, t, key) IN
  IF f.err # "nil" THEN [m |-> f.m, tree |-> t, err |-> f.err]
  ELSE
  LET r == ReadPage(f.m, f.pageID, NewPage) IN
  IF r.err # "nil" THEN [m |-> r.m, tree |-> t, err |-> r.err]
  ELSE
  LET leafPage == r.page
      numKeys == getNumKeys(leafPage)
  IN
  IF numKeys < t.degree - 1
  THEN LET w == WritePage(r.m, f.pageID, insertIntoLeaf(leafPage, key, value))
       IN [m |-> w.m, tree |-> t,
           err |-> IF HasKey(leafPage, key) THEN "DuplicateKey" ELSE w.err]
  ELSE IF HasKey(leafPage, key) THEN [m |-> r.m, tree |-> t, err |-> "DuplicateKey"]
  ELSE splitAndInsertLeaf(r.m, t, f.pageID, leafPage, key, value)

Insert(m, t, key, value) ==
  LET f == findLeafPage(m, t, key) IN
  IF f.err # "nil" THEN [m |-> f.m, tree |-> t, err |-> f.err]
  ELSE
  LET r == ReadPage(f.m, f.pageID, NewPage) IN
  IF r.err # "nil" THEN [m |-> r.m, tree |-> t, err |-> r.err]
  ELSE
  LET leafPage == r.page
      numKeys == getNumKeys(leafPage)
  IN
  IF HasKey(leafPage, key) THEN [m |-> r.m, tree |-> t, err |-> "DuplicateKey"]
  ELSE IF numKeys < t.degree - 1
  THEN LET w == WritePage(r.m, f.pageID, insertIntoLeaf(leafPage, key, value))
       IN [m |-> w.m, tree |-> t, err |-> w.err]
  ELSE splitAndInsertLeaf(r.m, t, f.pageID, leafPage, key, value)

(* --------------------------- payment service --------------------------- *)
\* the options the breaker is built with (milliseconds, per cent)
Timeout == 3000
ErrorThresholdPercentage == 50
ResetTimeout == 15000
\* the delay of the simulated gateway's slow response
SlowDelay == 6000

SERVICE_UNAVAILABLE == 503
BAD_REQUEST == 400
INTERNAL_SERVER_ERROR == 500

HttpException(message, status) ==
  [class |-> "HttpException", message |-> message, status |-> status]
Error(message) == [class |-> "Error", message |-> message, status |-> 0]

\* what the gateway does with a call
Outcomes == {"ok", "slow", "fail"}

\* paymentGatewayClient.processTransaction: it throws, or it answers with a
\* success after a delay of 0 or SlowDelay; the transaction id, a time stamp,
\* is left out
processTransaction(outcome) ==
  [delay |-> IF outcome = "slow" THEN SlowDelay ELSE 0,
   thrown |-> outcome = "fail",
   value |-> IF outcome = "fail"
             THEN Error("Gateway Timeout or Internal Error")
             ELSE [success |-> TRUE, error |-> "", fallback |-> FALSE]]

\* the value of the function registered with circuitBreaker.fallback
Fallback ==
  [success |-> FALSE,
   error |-> "Payment service temporarily unavailable. Please try again later.",
   fallback |-> TRUE]

\* the service before any call: the breaker CLOSED with its counters at 0,
\* no time spent OPEN, the gateway never called
NewPaymentService ==
  [state |-> "CLOSED", fires |-> 0, failures |-> 0, openFor |-> 0,
   gatewayCalls |-> 0]

\* the programs that build no in-memory tree: no BPlusTree[K] object, no
\* index file written by SaveToFile and no tree loaded from one
Nil == 0
NoFile == [Degree |-> 0, RootID |-> -1, Nodes |-> << >>]
NoMemTree == [root |-> Nil, degree |-> 0, heap |-> << >>]
NoMem == [tree |-> NoMemTree, file |-> NoFile, loaded |-> NoMemTree, err |-> "nil"]

\* the programs that build no PaymentService
NoService ==
  [state |-> "none", fires |-> 0, failures |-> 0, openFor |-> 0,
   gatewayCalls |-> 0]

\* circuitBreaker.fire as the README describes it: OPEN rejects the call and
\* runs the fallback; otherwise the gateway is called, a throw or an answer
\* later than Timeout is a failure that runs the fallback and opens the
\* breaker from HALF_OPEN, or from CLOSED once the share of failures has met
\* ErrorThresholdPercentage; a success from HALF_OPEN closes the breaker and
\* resets its counters
fire(s, outcome) ==
  IF s.state = "OPEN"
  THEN [s |-> s, value |-> Fallback]
  ELSE
    LET g == processTransaction(outcome)
        failed == g.thrown \/ g.delay >= Timeout
        called == [s EXCEPT !.gatewayCalls = @ + 1, !.fires = @ + 1,
                            !.failures = IF failed THEN @ + 1 ELSE @]
    IN IF ~failed
       THEN [s |-> IF s.state = "HALF_OPEN"
                   THEN [called EXCEPT !.state = "CLOSED", !.fires = 0,
                                       !.failures = 0]
                   ELSE called,
             value |-> g.value]
       ELSE [s |-> IF \/ s.state = "HALF_OPEN"
                      \/ called.failures * 100
                           >= ErrorThresholdPercentage * called.fires
                   THEN [called EXCEPT !.state = "OPEN", !.openFor = 0]
                   ELSE called,
             value |-> Fallback]

\* PaymentService.processPayment with the fallback result answered by
\* BAD_REQUEST: the test of result.fallback is skipped
processPayment_FallbackNotTested(s, outcome) ==
  LET f == fire(s, outcome)
      result == f.value
  IN [s |-> f.s, result |-> result, thrown |-> ~result.success,
      value |-> IF ~result.success
                THEN HttpException(IF result.error # "" THEN result.error
                                   ELSE "Payment processing failed",
                                   BAD_REQUEST)
                ELSE result]

\* PaymentService.processPayment: the try block throws SERVICE_UNAVAILABLE
\* for a fallback result, BAD_REQUEST for another result without success and
\* returns the result otherwise; the catch block rethrows an HttpException
\* and turns any other error into INTERNAL_SERVER_ERROR
processPayment(s, outcome) ==
  LET f == fire(s, outcome)
      result == f.value
      tried ==
        IF result.fallback /\ ~result.success
        THEN [thrown |-> TRUE,
              value |-> HttpException(result.error, SERVICE_UNAVAILABLE)]
        ELSE IF ~result.success
        THEN [thrown |-> TRUE,
              value |-> HttpException(IF result.error # "" THEN result.error
                                      ELSE "Payment processing failed",
                                      BAD_REQUEST)]
        ELSE [thrown |-> FALSE, value |-> result]
  IN [s |-> f.s, result |-> result, thrown |-> tried.thrown,
      value |-> IF tried.thrown /\ tried.value.class # "HttpException"
                THEN HttpException(
                       IF tried.value.message # "" THEN tried.value.message
                       ELSE "An unexpected error occurred during payment processing.",
                       INTERNAL_SERVER_ERROR)
                ELSE tried.value]

\* PaymentController.processPayment: the service's result wrapped in a
\* success message, an HttpException of the service rethrown, any other
\* error turned into INTERNAL_SERVER_ERROR
PaymentController_processPayment(s, outcome) ==
  LET p == processPayment(s, outcome) IN
  [s |-> p.s, result |-> p.result, service |-> p.value, thrown |-> p.thrown,
   value |-> IF ~p.thrown
             THEN [success |-> TRUE,
                   message |-> "Payment processed successfully",
                   data |-> p.value]
             ELSE IF p.value.class = "HttpException"
             THEN p.value
             ELSE HttpException(
                    "An unexpected error occurred while processing the payment.",
                    INTERNAL_SERVER_ERROR)]

(* ---------------------------- state machine ---------------------------- *)
\* disk:     the index file, page id i at index i + 1
\* pager:    the Pager object's fileSize and numPages
\* tree:     the BPlusTree object's rootPageID and degree
\* inserted: the (key, value) pairs of the Inserts that returned nil
\* op:       the last call made and what it returned
\* log:      the page reads, page writes and allocations of the last call
\* failures: the number of Inserts so far in which a file-system call failed
\* hist:     for calls made on the Pager itself: the length of the file when
\*           it was opened, the ids AllocatePage returned and the ids of the
\*           pages WritePage wrote to the file
\* mem:      the in-memory B+ tree program: its BPlusTree object (tree: root,
\*           degree and the heap of nodes, a pointer being an index of the
\*           heap, Nil the nil pointer), the index file SaveToFile wrote,
\*           the tree LoadFromFile built and the error of the last call
\* payment:  the PaymentService object: the breaker's state and counters,
\*           the time it has been OPEN and the calls the gateway received
VARIABLES disk, pager, tree, inserted, op, log, failures, hist, payment, mem
vars == << disk, pager, tree, inserted, op, log, failures, hist, payment,
          mem >>

\* the pager value an operation starts from
Machine(failAt) ==
  [disk |-> disk, fileSize |-> pager.fileSize, numPages |-> pager.numPages,
   io |-> 0, failAt |-> failAt, log |-> << >>]

PagerOf(m) == [fileSize |-> m.fileSize, numPages |-> m.numPages]

\* main at lines 543-552: a fresh index file, NewPager, NewBPlusTree
Init ==
  \E degree \in Degrees :
    LET c == NewBPlusTree(NewPager(<< >>), degree) IN
    /\ disk = c.m.disk
    /\ pager = PagerOf(c.m)
    /\ tree = c.tree
    /\ inserted = {}
    /\ op = [name |-> "New", key |-> 0, value |-> 0, err |-> "nil"]
    /\ log = c.m.log
    /\ failures = 0
    /\ hist = [openSize |-> 0, allocated |-> {}, written |-> {}]
    /\ payment = NoService
    /\ mem = NoMem

\* tree.Insert(key, value) with no file-system failure
InsertOp(key, value) ==
  LET r == Insert(Machine(0), tree, key, value) IN
  /\ pager.numPages < MaxPages
  /\ disk' = r.m.disk
  /\ pager' = PagerOf(r.m)
  /\ tree' = r.tree
  /\ inserted' = IF r.err = "nil" THEN inserted \cup {<< key, value >>} ELSE inserted
  /\ op' = [name |-> "Insert", key |-> key, value |-> value, err |-> r.err]
  /\ log' = r.m.log
  /\ failures' = failures
  /\ hist' = hist
  /\ payment' = payment
  /\ mem' = mem

\* a restart: pager.Close(), then NewPager on the same file and NewBPlusTree
Reopen ==
  LET c == NewBPlusTree(NewPager(disk), tree.degree) IN
  /\ disk' = c.m.disk
  /\ pager' = PagerOf(c.m)
  /\ tree' = c.tree
  /\ inserted' = inserted
  /\ op' = [name |-> "Reopen", key |-> 0, value |-> 0, err |-> "nil"]
  /\ log' = c.m.log
  /\ failures' = failures
  /\ hist' = hist
  /\ payment' = payment
  /\ mem' = mem

Next == \E key \in Keys, value \in Values : InsertOp(key, value)

Spec == Init /\ [][Next]_vars

\* the index is built in one session and read after the restart (main:
\* buildTreeFromFile, then the file is opened again), so the restart is
\* followed by no Insert
InsertBeforeReopen(key, value) ==
  /\ op.name # "Reopen"
  /\ InsertOp(key, value)

NextReopen ==
  \/ \E key \in Keys, value \in Values : InsertBeforeReopen(key, value)
  \/ Reopen

SpecReopen == Init /\ [][NextReopen]_vars

\* the file-system call number failAt was reached, and failed
Injected(m) == m.failAt # 0 /\ m.io >= m.failAt

\* Insert with the file-system call number failAt failing (0: none fails).
\* The caller stops at the first Insert that returns an error, as the loop
\* of buildTreeFromFile does (lines 524-526); a behaviour is followed until
\* MaxFailures calls had a file-system call fail.
InsertIO(key, value, failAt) ==
  LET r == Insert(Machine(failAt), tree, key, value) IN
  /\ pager.numPages < MaxPages
  /\ op.err = "nil"
  /\ failures < MaxFailures
  /\ disk' = r.m.disk
  /\ pager' = PagerOf(r.m)
  /\ tree' = r.tree
  /\ inserted' = IF r.err = "nil" THEN inserted \cup {<<key, value>>} ELSE inserted
  /\ op' = [name |-> "Insert", key |-> key, value |-> value, err |-> r.err]
  /\ log' = r.m.log
  /\ failures' = IF Injected(r.m) THEN failures + 1 ELSE failures
  /\ hist' = hist
  /\ payment' = payment
  /\ mem' = mem

NextIO == \E key \in Keys, failAt \in 0..MaxFail : InsertIO(key, 100, failAt)
SpecIO == Init /\ [][NextIO]_vars

(* ------------------------ reading the current state -------------------- *)
\* what Search(key) returns on a tree t over the file d tracked as p
SearchAt(d, p, t, key) ==
  LET r == Search([disk |-> d, fileSize |-> p.fileSize, numPages |-> p.numPages,
                   io |-> 0, failAt |-> 0, log |-> << >>], t, key)
  IN [offset |-> r.offset, found |-> r.found, err |-> r.err]

\* what tree.Search(key) returns in the current state
SearchNow(key) == SearchAt(disk, pager, tree, key)

\* what SearchRange(a, b) returns on a tree t over the file d tracked as p
SearchRangeAt(d, p, t, a, b) ==
  LET r == SearchRange([disk |-> d, fileSize |-> p.fileSize, numPages |-> p.numPages,
                        io |-> 0, failAt |-> 0, log |-> << >>], t, a, b)
  IN [results |-> r.results, err |-> r.err]

\* what tree.SearchRange(a, b) returns in the current state
SearchRangeNow(a, b) == SearchRangeAt(disk, pager, tree, a, b)

(* ------------------------ the Pager on its own ------------------------- *)
\* the bytes a file may hold after its last whole page when it is opened
Tails == {0, 100}

\* NewPager on a file of pages whole pages and tail more bytes (lines 34-41)
InitPager ==
  \E pages \in 0..2, tail \in Tails :
    /\ disk = [i \in 1..pages |-> NewPage]
    /\ pager = [fileSize |-> pages * PageSize + tail,
                numPages |-> (pages * PageSize + tail) \div PageSize]
    /\ tree = [degree |-> MinDegree, rootPageID |-> -1]
    /\ inserted = {}
    /\ op = [name |-> "NewPager", key |-> 0, value |-> 0, err |-> "nil"]
    /\ log = << >>
    /\ failures = 0
    /\ hist = [openSize |-> pages * PageSize + tail, allocated |-> {}, written |-> {}]
    /\ payment = NoService
    /\ mem = NoMem

\* pager.AllocatePage()
AllocOp ==
  LET a == AllocatePage(Machine(0)) IN
  /\ pager.numPages < MaxPagerPages
  /\ disk' = a.m.disk
  /\ pager' = PagerOf(a.m)
  /\ op' = [name |-> "AllocatePage", key |-> a.pageID, value |-> 0, err |-> "nil"]
  /\ log' = a.m.log
  /\ hist' = [hist EXCEPT !.allocated = @ \cup {a.pageID}]
  /\ UNCHANGED << tree, inserted, failures, payment, mem >>

\* pager.WritePage(pageID, page) with the file-system call number failAt
\* failing: 1 is the WriteAt, 2 the Sync; the page reached the file when
\* both calls were made
WriteOp(pageID, failAt) ==
  LET w == WritePage(Machine(failAt), pageID, setNumKeys(NewPage, 1)) IN
  /\ disk' = w.m.disk
  /\ pager' = PagerOf(w.m)
  /\ op' = [name |-> "WritePage", key |-> pageID, value |-> 0, err |-> w.err]
  /\ log' = w.m.log
  /\ hist' = [hist EXCEPT !.written = IF w.m.io = 2 THEN @ \cup {pageID} ELSE @]
  /\ UNCHANGED << tree, inserted, failures, payment, mem >>

\* pager.ReadPage(pageID, new(Page)) with the file-system call number failAt
\* failing; value is the number of file-system calls the read made
ReadOp(pageID, failAt) ==
  LET r == ReadPage(Machine(failAt), pageID, NewPage) IN
  /\ disk' = r.m.disk
  /\ pager' = PagerOf(r.m)
  /\ op' = [name |-> "ReadPage", key |-> pageID, value |-> r.m.io, err |-> r.err]
  /\ log' = r.m.log
  /\ UNCHANGED << tree, inserted, failures, hist, payment, mem >>

NextPager ==
  \/ AllocOp
  \/ \E pageID \in -1..MaxPagerPages, failAt \in 0..1 : ReadOp(pageID, failAt)
  \/ \E pageID \in -1..MaxPagerPages, failAt \in 0..2 : WriteOp(pageID, failAt)
SpecPager == InitPager /\ [][NextPager]_vars

(* --------------------------- construction ------------------------------ *)
\* the degrees the constructor is called with
ConstructDegrees == 0..MaxDegree

\* NewPager on a file that holds no whole page
InitNew ==
  \E tail \in Tails :
    /\ disk = << >>
    /\ pager = [fileSize |-> tail, numPages |-> tail \div PageSize]
    /\ tree = NoTree
    /\ inserted = {}
    /\ op = [name |-> "NewPager", key |-> 0, value |-> 0, err |-> "nil"]
    /\ log = << >>
    /\ failures = 0
    /\ hist = [openSize |-> tail, allocated |-> {}, written |-> {}]
    /\ payment = NoService
    /\ mem = NoMem

\* NewBPlusTree(pager, degree) on the file as it is; key is the degree and
\* value the num_pages the constructor found
NewTreeOp(degree) ==
  LET c == NewBPlusTree(Machine(0), degree) IN
  /\ disk' = c.m.disk
  /\ pager' = PagerOf(c.m)
  /\ tree' = c.tree
  /\ op' = [name |-> "NewBPlusTree", key |-> degree, value |-> pager.numPages,
            err |-> c.err]
  /\ log' = c.m.log
  /\ UNCHANGED << inserted, failures, hist, payment, mem >>

\* Insert on the tree that was built on the empty file
InsertAfterNew(key) ==
  /\ \/ op.name = "Insert"
     \/ op.name = "NewBPlusTree" /\ op.err = "nil" /\ op.value = 0
  /\ InsertOp(key, 100)

NextNew ==
  \/ \E degree \in ConstructDegrees : NewTreeOp(degree)
  \/ \E key \in Keys : InsertAfterNew(key)
SpecNew == InitNew /\ [][NextNew]_vars

(* ------------------------------ payments ------------------------------- *)
\* the requests a behaviour makes
MaxRequests == 5
\* the step of the clock, in milliseconds
TickMs == 5000
\* the keys 1..MaxMemKey are inserted into the in-memory tree
MaxMemKey == 6
\* the keys 1..MaxFileKey are inserted before the index is saved
MaxFileKey == 5
\* the largest degree the page capacity is checked for
MaxFitDegree == 256

\* the PaymentService as constructed, no request made
InitPay ==
  /\ disk = << >>
  /\ pager = [fileSize |-> 0, numPages |-> 0]
  /\ tree = NoTree
  /\ inserted = {}
  /\ op = [name |-> "PaymentService", seq |-> 0, state |-> "CLOSED",
           result |-> Fallback, service |-> Fallback, thrown |-> FALSE,
           response |-> Fallback]
  /\ log = << >>
  /\ failures = 0
  /\ hist = [openSize |-> 0, allocated |-> {}, written |-> {}]
  /\ payment = NewPaymentService
  /\ mem = NoMem

\* POST payment/process, the gateway behaving as outcome: seq numbers the
\* request, state is the breaker's state when it arrived, result what fire
\* resolved with, service what PaymentService.processPayment returned or
\* threw, response what the controller returned or threw
PayOp(outcome) ==
  LET c == PaymentController_processPayment(payment, outcome) IN
  /\ op.seq < MaxRequests
  /\ payment' = c.s
  /\ op' = [name |-> "processPayment", seq |-> op.seq + 1,
            state |-> payment.state, result |-> c.result,
            service |-> c.service, thrown |-> c.thrown, response |-> c.value]
  /\ UNCHANGED << disk, pager, tree, inserted, log, failures, hist, mem >>

\* TickMs pass while the breaker is OPEN; once it has been OPEN for
\* ResetTimeout it is HALF_OPEN
TickOp ==
  /\ payment.state = "OPEN"
  /\ payment' = IF payment.openFor + TickMs >= ResetTimeout
                THEN [payment EXCEPT !.state = "HALF_OPEN", !.openFor = 0]
                ELSE [payment EXCEPT !.openFor = @ + TickMs]
  /\ UNCHANGED << disk, pager, tree, inserted, op, log, failures, hist, mem >>

NextPay ==
  \/ \E outcome \in Outcomes : PayOp(outcome)
  \/ TickOp
SpecPay == InitPay /\ [][NextPay]_vars

\* the keys looked up: every key that can be inserted, one below and one
\* above
ProbeKeys == 0..(MaxKey + 1)

\* the bounds range scans are run with
ReadEnds == {0, (MaxKey + 1) \div 2, MaxKey + 1}

\* tree.Search(key) with the file-system call number failAt failing
SearchOp(key, failAt) ==
  LET r == Search(Machine(failAt), tree, key) IN
  /\ disk' = r.m.disk
  /\ pager' = PagerOf(r.m)
  /\ op' = [name |-> "Search", key |-> key, value |-> r.offset, err |-> r.err]
  /\ log' = r.m.log
  /\ UNCHANGED << tree, inserted, failures, hist, payment, mem >>

\* tree.SearchRange(startKey, endKey) with the file-system call number
\* failAt failing
SearchRangeOp(startKey, endKey, failAt) ==
  LET r == SearchRange(Machine(failAt), tree, startKey, endKey) IN
  /\ disk' = r.m.disk
  /\ pager' = PagerOf(r.m)
  /\ op' = [name |-> "SearchRange", key |-> startKey, value |-> endKey, err |-> r.err]
  /\ log' = r.m.log
  /\ UNCHANGED << tree, inserted, failures, hist, payment, mem >>

\* the index is built, then queried (main, steps 2, 4 and 5)
InsertBeforeRead(key) ==
  /\ op.name \in {"New", "Insert"}
  /\ InsertOp(key, 100)

NextRead ==
  \/ \E key \in Keys : InsertBeforeRead(key)
  \/ \E key \in ProbeKeys, failAt \in 0..MaxReadFail : SearchOp(key, failAt)
  \/ \E startKey \in ReadEnds, endKey \in ReadEnds, failAt \in 0..MaxReadFail :
       SearchRangeOp(startKey, endKey, failAt)
SpecRead == Init /\ [][NextRead]_vars

(* ------------------------- ascending inserts --------------------------- *)
\* the degree of the ascending scenarios and the number of keys inserted
AscDegree == 4
MaxAscending == 10

\* a new tree of degree AscDegree on a fresh file
InitAsc == Init /\ tree.degree = AscDegree

\* tree.Insert(key, key * 10) for the next key of 1, 2, 3, ...
InsertAscOp ==
  LET key == Cardinality(inserted) + 1
      r == Insert(Machine(0), tree, key, key * 10)
  IN /\ key <= MaxAscending
     /\ disk' = r.m.disk
     /\ pager' = PagerOf(r.m)
     /\ tree' = r.tree
     /\ inserted' = IF r.err = "nil" THEN inserted \cup {<< key, key * 10 >>}
                    ELSE inserted
     /\ op' = [name |-> "Insert", key |-> key, value |-> key * 10, err |-> r.err]
     /\ log' = r.m.log
     /\ UNCHANGED << failures, hist, payment, mem >>

\* the keys are inserted in ascending order and the tree is queried in
\* between
NextAsc ==
  \/ InsertAscOp
  \/ \E key \in 0..(MaxAscending + 1) : SearchOp(key, 0)
  \/ \E startKey \in 0..(MaxAscending + 1), endKey \in 0..(MaxAscending + 1) :
       SearchRangeOp(startKey, endKey, 0)
SpecAsc == InitAsc /\ [][NextAsc]_vars

(* --------------------- the tree as stored in the file ------------------ *)
PageIDs == 0..(Len(disk) - 1)
PageOf(id) == disk[id + 1]
LeafIDs == {id \in PageIDs : isLeaf(PageOf(id))}
InternalIDs == {id \in PageIDs : ~isLeaf(PageOf(id))}

\* the live entries of a leaf page: entry i at headerSize + i*16
LeafKeys(page) ==
  [i \in 1..getNumKeys(page) |-> I64(GetU64(page, headerSize + (i - 1) * 16))]
LeafValues(page) ==
  [i \in 1..getNumKeys(page) |-> I64(GetU64(page, headerSize + (i - 1) * 16 + 8))]
\* the live separators K1..Kn and pointers P0..Pn of an internal page
Separators(page) ==
  [i \in 1..getNumKeys(page) |-> I64(GetU64(page, headerSize + (i - 1) * 16 + 8))]
Pointers(page) ==
  [i \in 1..(getNumKeys(page) + 1) |-> I64(GetU64(page, headerSize + (i - 1) * 16))]

Range(s) == {s[i] : i \in DOMAIN s}
StrictlyIncreasing(s) == \A i \in 1..(Len(s) - 1) : s[i] < s[i + 1]

\* the (leaf id, number of pages on the path) pairs reached from page id by
\* following child pointers; fuel bounds the path length by the page count
RECURSIVE LeavesUnder(_, _, _)
LeavesUnder(id, depth, fuel) ==
  IF id \notin PageIDs \/ fuel = 0 THEN {}
  ELSE IF isLeaf(PageOf(id)) THEN {<< id, depth >>}
  ELSE UNION {LeavesUnder(c, depth + 1, fuel - 1) : c \in Range(Pointers(PageOf(id)))}

\* the keys stored in the leaves reached from page id
KeysUnder(id) ==
  UNION {Range(LeafKeys(PageOf(l[1]))) : l \in LeavesUnder(id, 1, Len(disk))}

\* the leftmost leaf: follow P0 from the root
RECURSIVE LeftmostFrom(_, _)
LeftmostFrom(id, fuel) ==
  IF id \notin PageIDs \/ fuel = 0 THEN -1
  ELSE IF isLeaf(PageOf(id)) THEN id
  ELSE LeftmostFrom(Pointers(PageOf(id))[1], fuel - 1)

\* the leaf ids met by following next_leaf_page_id from id, while inside
\* the file and for at most fuel steps, and the id the walk stopped at
RECURSIVE ChainFrom(_, _, _)
ChainFrom(id, fuel, seen) ==
  IF id \notin PageIDs \/ fuel = 0 THEN [leaves |-> seen, end |-> id]
  ELSE ChainFrom(getNextLeafPageID(PageOf(id)), fuel - 1, Append(seen, id))

LeafChain == ChainFrom(LeftmostFrom(tree.rootPageID, Len(disk)), Len(disk) + 1, << >>)

RECURSIVE Concat(_, _)
Concat(ids, i) ==
  IF i > Len(ids) THEN << >>
  ELSE LeafKeys(PageOf(ids[i])) \o Concat(ids, i + 1)

\* the keys stored in the leaf pages, with multiplicity
AllLeafKeys == UNION {Range(LeafKeys(PageOf(id))) : id \in LeafIDs}
NumLeafEntries(k) ==
  Cardinality({<< id, i >> \in LeafIDs \X (1..PayloadWords) :
                 i <= getNumKeys(PageOf(id)) /\ LeafKeys(PageOf(id))[i] = k})

(* ------------------------ the in-memory B+ tree ------------------------ *)
\* A tree value t carries the BPlusTree object (root, degree) and the heap
\* of Node objects it can reach: node pointer n is heap[n], Nil is nil. The
\* pointers of a leaf are record offsets, those of an internal node are node
\* pointers.
MemKeys == 1..MaxMemKey
\* the offset buildTreeFromFile hands to Insert with a key
MemOffsets == {100, 200}

MemNode(leaf, keys, pointers, parent, next) ==
  [isLeaf |-> leaf, keys |-> keys, pointers |-> pointers, parent |-> parent,
   next |-> next]

MemNewBPlusTree(degree) ==
  IF degree < MinDegree THEN [tree |-> NoMemTree, err |-> "panic"]
  ELSE [tree |-> [root |-> Nil, degree |-> degree, heap |-> << >>], err |-> "nil"]

\* the loop of findLeaf: the first index i (0-based) with key < keys[i]
RECURSIVE MemChildIndex(_, _, _)
MemChildIndex(keys, key, i) ==
  IF i < Len(keys) /\ key >= keys[i + 1] THEN MemChildIndex(keys, key, i + 1)
  ELSE i

\* findLeaf from node n; Nil when the walk dereferences a nil pointer
RECURSIVE MemFindLeafFrom(_, _, _, _)
MemFindLeafFrom(h, n, key, fuel) ==
  IF n = Nil \/ fuel = 0 THEN Nil
  ELSE IF h[n].isLeaf THEN n
  ELSE MemFindLeafFrom(h, h[n].pointers[MemChildIndex(h[n].keys, key, 0) + 1],
                       key, fuel - 1)

MemFindLeaf(t, key) == MemFindLeafFrom(t.heap, t.root, key, Len(t.heap))

\* the loop of Search over the leaf's keys, from the 1-based index i
RECURSIVE MemScanLeaf(_, _, _)
MemScanLeaf(node, key, i) ==
  IF i > Len(node.keys) THEN [offset |-> 0, found |-> FALSE]
  ELSE IF node.keys[i] = key THEN [offset |-> node.pointers[i], found |-> TRUE]
  ELSE MemScanLeaf(node, key, i + 1)

MemSearch(t, key) ==
  IF t.root = Nil THEN [offset |-> 0, found |-> FALSE]
  ELSE MemScanLeaf(t.heap[MemFindLeaf(t, key)], key, 1)

\* the inner loop of SearchRange over one leaf: the results so far and
\* whether a key past endKey made the function return
RECURSIVE MemRangeLeaf(_, _, _, _, _)
MemRangeLeaf(node, i, startKey, endKey, results) ==
  IF i > Len(node.keys) THEN [results |-> results, done |-> FALSE]
  ELSE LET k == node.keys[i]
           r == IF k >= startKey /\ k <= endKey
                THEN Append(results, node.pointers[i]) ELSE results
       IN IF k > endKey THEN [results |-> r, done |-> TRUE]
          ELSE MemRangeLeaf(node, i + 1, startKey, endKey, r)

\* the outer loop of SearchRange along the next pointers
RECURSIVE MemRangeWalk(_, _, _, _, _, _)
MemRangeWalk(h, n, startKey, endKey, results, fuel) ==
  IF n = Nil \/ fuel = 0 THEN results
  ELSE LET r == MemRangeLeaf(h[n], 1, startKey, endKey, results)
       IN IF r.done THEN r.results
          ELSE MemRangeWalk(h, h[n].next, startKey, endKey, r.results, fuel - 1)

\* SearchRange: on an empty tree findLeaf dereferences the nil root
MemSearchRange(t, startKey, endKey) ==
  IF startKey > endKey THEN [results |-> << >>, err |-> "nil"]
  ELSE IF t.root = Nil THEN [results |-> << >>, err |-> "panic"]
  ELSE [results |-> MemRangeWalk(t.heap, MemFindLeaf(t, startKey), startKey,
                                 endKey, << >>, Len(t.heap) + 1),
        err |-> "nil"]

\* the loop of insertIntoLeaf and of insertIntoParent: the first index
\* (0-based) whose key is not below key
RECURSIVE MemInsertPos(_, _, _)
MemInsertPos(keys, key, insertPos) ==
  IF insertPos < Len(keys) /\ key > keys[insertPos + 1]
  THEN MemInsertPos(keys, key, insertPos + 1)
  ELSE insertPos

MemInsertIntoLeaf(h, n, key, offset) ==
  LET insertPos == MemInsertPos(h[n].keys, key, 0) IN
  [h EXCEPT ![n].keys = InsertAt(@, insertPos, key),
            ![n].pointers = InsertAt(@, insertPos, offset)]

MemInsertIntoParent(h, parent, key, newChild) ==
  LET insertPos == MemInsertPos(h[parent].keys, key, 0) IN
  [h EXCEPT ![parent].keys = InsertAt(@, insertPos, key),
            ![parent].pointers = InsertAt(@, insertPos + 1, newChild)]

\* the loop of lines 216-219: the children of the new right node get it as
\* their parent
MemReparent(h, children, newRightNode) ==
  [i \in DOMAIN h |->
     IF \E j \in DOMAIN children : children[j] = i
     THEN [h[i] EXCEPT !.parent = newRightNode] ELSE h[i]]

RECURSIVE MemSplitAndPromote(_, _)
MemSplitAndPromote(t, n) ==
  LET h == t.heap
      node == h[n]
      splitPoint == t.degree \div 2
      newRightNode == Len(h) + 1
      right ==
        IF node.isLeaf
        THEN MemNode(TRUE, SubSeq(node.keys, splitPoint + 1, Len(node.keys)),
                     SubSeq(node.pointers, splitPoint + 1, Len(node.pointers)),
                     node.parent, node.next)
        ELSE MemNode(FALSE, SubSeq(node.keys, splitPoint + 2, Len(node.keys)),
                     SubSeq(node.pointers, splitPoint + 2, Len(node.pointers)),
                     node.parent, Nil)
      keyToPromote == IF node.isLeaf THEN right.keys[1] ELSE node.keys[splitPoint + 1]
      left ==
        IF node.isLeaf
        THEN [node EXCEPT !.keys = SubSeq(@, 1, splitPoint),
                          !.pointers = SubSeq(@, 1, splitPoint),
                          !.next = newRightNode]
        ELSE [node EXCEPT !.keys = SubSeq(@, 1, splitPoint),
                          !.pointers = SubSeq(@, 1, splitPoint + 1)]
      h1 == Append([h EXCEPT ![n] = left], right)
  IN IF node.parent = Nil
     THEN LET newRoot == Len(h1) + 1 IN
          [t EXCEPT !.root = newRoot,
                    !.heap = Append([h1 EXCEPT ![n].parent = newRoot,
                                               ![newRightNode].parent = newRoot],
                                    MemNode(FALSE, << keyToPromote >>,
                                            << n, newRightNode >>, Nil, Nil))]
     ELSE LET parent == node.parent
              h2 == IF ~right.isLeaf THEN MemReparent(h1, right.pointers, newRightNode)
                    ELSE h1
              h3 == MemInsertIntoParent(h2, parent, keyToPromote, newRightNode)
              t3 == [t EXCEPT !.heap = h3]
          IN IF Len(h3[parent].keys) = t.degree THEN MemSplitAndPromote(t3, parent)
             ELSE t3

MemInsert(t, key, offset) ==
  IF t.root = Nil
  THEN [t EXCEPT !.root = 1,
                 !.heap = << MemNode(TRUE, << key >>, << offset >>, Nil, Nil) >>]
  ELSE LET leafNode == MemFindLeaf(t, key) IN
       IF \E i \in DOMAIN t.heap[leafNode].keys : t.heap[leafNode].keys[i] = key
       THEN t
       ELSE LET t1 == [t EXCEPT !.heap = MemInsertIntoLeaf(@, leafNode, key, offset)]
            IN IF Len(t1.heap[leafNode].keys) = t.degree
               THEN MemSplitAndPromote(t1, leafNode)
               ELSE t1

\* the level-order traversal of SaveToFile: the nodes in the order they get
\* their ids 0, 1, 2, ...
RECURSIVE MemLevelOrder(_, _, _, _)
MemLevelOrder(h, queue, order, fuel) ==
  IF queue = << >> \/ fuel = 0 THEN order
  ELSE LET node == Head(queue) IN
       IF \E i \in DOMAIN order : order[i] = node
       THEN MemLevelOrder(h, Tail(queue), order, fuel - 1)
       ELSE MemLevelOrder(h, Tail(queue) \o (IF h[node].isLeaf THEN << >>
                                              ELSE h[node].pointers),
                          Append(order, node), fuel - 1)

\* nodeMap[n]: the id of node n, 0 for a node the traversal did not meet
NodeIDOf(order, n) ==
  IF \E i \in DOMAIN order : order[i] = n
  THEN (CHOOSE i \in DOMAIN order : order[i] = n) - 1
  ELSE 0

SerializableNode(h, order, n) ==
  [IsLeaf |-> h[n].isLeaf,
   Keys |-> h[n].keys,
   Pointers |-> IF h[n].isLeaf THEN h[n].pointers
                ELSE [j \in DOMAIN h[n].pointers |-> NodeIDOf(order, h[n].pointers[j])],
   ParentID |-> IF h[n].parent # Nil THEN NodeIDOf(order, h[n].parent) ELSE -1,
   NextID |-> IF h[n].next # Nil THEN NodeIDOf(order, h[n].next) ELSE -1,
   NodeID |-> NodeIDOf(order, n)]

\* the orders in which the range over nodeMap is taken to yield n nodes: the
\* rotations of the id order and of its reverse
MapOrders(n) ==
  {[i \in 1..n |-> ((i + r - 1) % n) + 1] : r \in 0..(n - 1)}
    \cup {[i \in 1..n |-> n - ((i + r - 1) % n)] : r \in 0..(n - 1)}

\* SaveToFile with every node written without its next id
MemSaveToFile_NextDropped(t, file, mapOrder) ==
  IF t.root = Nil THEN [file |-> file, err |-> "cannot save an empty tree"]
  ELSE LET order == MemLevelOrder(t.heap, << t.root >>, << >>,
                                  2 * Len(t.heap) + 1)
       IN [file |-> [Degree |-> t.degree,
                     RootID |-> NodeIDOf(order, t.root),
                     Nodes |-> [i \in DOMAIN order |->
                                  [SerializableNode(t.heap, order, order[mapOrder[i]])
                                     EXCEPT !.NextID = -1]]],
           err |-> "nil"]

\* SaveToFile(path) over the previous content file of path, the range over
\* nodeMap yielding the nodes in the order mapOrder
MemSaveToFile(t, file, mapOrder) ==
  IF t.root = Nil THEN [file |-> file, err |-> "cannot save an empty tree"]
  ELSE LET order == MemLevelOrder(t.heap, << t.root >>, << >>,
                                  2 * Len(t.heap) + 1)
       IN [file |-> [Degree |-> t.degree,
                     RootID |-> NodeIDOf(order, t.root),
                     Nodes |-> [i \in DOMAIN order |->
                                  SerializableNode(t.heap, order, order[mapOrder[i]])]],
           err |-> "nil"]

\* nodeMapByID[id]: the node created for the last file entry with that id,
\* nil if there is none
NodeByID(Nodes, id) ==
  IF \E i \in DOMAIN Nodes : Nodes[i].NodeID = id
  THEN CHOOSE i \in DOMAIN Nodes :
         /\ Nodes[i].NodeID = id
         /\ \A j \in DOMAIN Nodes : Nodes[j].NodeID = id => j <= i
  ELSE Nil

MemLoadFromFile(file) ==
  IF file = NoFile THEN [tree |-> NoMemTree, err |-> "ReadFile"]
  ELSE LET c == MemNewBPlusTree(file.Degree) IN
       IF c.err # "nil" \/ Len(file.Nodes) = 0 THEN c
       ELSE [tree |->
               [root |-> NodeByID(file.Nodes, file.RootID),
                degree |-> file.Degree,
                heap |-> [i \in DOMAIN file.Nodes |->
                            LET sNode == file.Nodes[i]
                                n == NodeByID(file.Nodes, sNode.NodeID)
                            IN IF n # i THEN MemNode(sNode.IsLeaf, sNode.Keys, << >>, Nil, Nil)
                               ELSE MemNode(
                                 sNode.IsLeaf, sNode.Keys,
                                 IF sNode.IsLeaf THEN sNode.Pointers
                                 ELSE [j \in DOMAIN sNode.Pointers |->
                                         NodeByID(file.Nodes, sNode.Pointers[j])],
                                 IF sNode.ParentID # -1
                                 THEN NodeByID(file.Nodes, sNode.ParentID) ELSE Nil,
                                 IF sNode.NextID # -1
                                 THEN NodeByID(file.Nodes, sNode.NextID) ELSE Nil)]],
             err |-> "nil"]

\* main of part_002: NewBPlusTree(degree), no file written yet
InitMem ==
  \E degree \in Degrees :
    /\ disk = << >>
    /\ pager = [fileSize |-> 0, numPages |-> 0]
    /\ tree = NoTree
    /\ inserted = {}
    /\ op = [name |-> "New", key |-> 0, value |-> 0, err |-> "nil"]
    /\ log = << >>
    /\ failures = 0
    /\ hist = [openSize |-> 0, allocated |-> {}, written |-> {}]
    /\ payment = NoService
    /\ mem = [NoMem EXCEPT !.tree = MemNewBPlusTree(degree).tree]

\* tree.Insert(key, offset) on the in-memory tree, before the index is saved
MemInsertOp(key, offset) ==
  /\ mem.file = NoFile
  /\ mem.err = "nil"
  /\ mem' = [mem EXCEPT !.tree = MemInsert(@, key, offset)]
  /\ inserted' = IF \E e \in inserted : e[1] = key THEN inserted
                 ELSE inserted \cup {<< key, offset >>}
  /\ op' = [name |-> "Insert", key |-> key, value |-> offset, err |-> "nil"]
  /\ UNCHANGED << disk, pager, tree, log, failures, hist, payment >>

NextMem == \E key \in MemKeys, offset \in MemOffsets : MemInsertOp(key, offset)
SpecMem == InitMem /\ [][NextMem]_vars

(* ---------------------- the capacity of a page ------------------------- *)
\* One page of a tree of a degree NewBPlusTree accepts, filled entry by entry
\* as Insert fills a leaf and insertIntoParent an internal page. Only the
\* header of the page is kept; of the payload the model follows the byte
\* offsets the code uses against the length PageSize of the buffer.
FitDegrees == MinDegree..MaxFitDegree

\* the slice expressions, the copy and the two PutUint64 calls of
\* insertIntoLeaf (lines 204-209) on a leaf of numKeys entries: "panic" when
\* an index is out of range of the buffer, "truncated" when copy has less
\* room than bytes to move and drops the tail
insertIntoLeafBuffer(numKeys, insertIndex) ==
  LET dst == headerSize + (insertIndex + 1) * 16
      src == headerSize + insertIndex * 16
      srcEnd == headerSize + numKeys * 16
      offset == headerSize + insertIndex * 16
  IN IF dst > PageSize \/ srcEnd > PageSize \/ src > srcEnd THEN "panic"
     ELSE IF offset + 8 > PageSize \/ offset + 16 > PageSize THEN "panic"
     ELSE IF PageSize - dst < srcEnd - src THEN "truncated"
     ELSE "nil"

\* the same for the copy and the PutUint64 calls of insertIntoParent (lines
\* 324-329) on an internal page of numKeys separators, whose pointers and
\* separators end at byte headerSize + 8 + 16 * numKeys
insertIntoParentBuffer(numKeys, insertIndex) ==
  LET keyStart == headerSize + insertIndex * 16 + 8
      ptrStart == keyStart - 8
      used == headerSize + 8 + numKeys * 16
  IN IF ptrStart + 32 > PageSize \/ ptrStart + 16 > PageSize THEN "panic"
     ELSE IF keyStart + 8 > PageSize \/ keyStart + 16 > PageSize THEN "panic"
     ELSE IF insertIndex < numKeys /\ used + 16 > PageSize THEN "truncated"
     ELSE "nil"

\* a tree of one of the degrees, and one page of it: an empty leaf as
\* NewBPlusTree writes it or an internal page of one separator as a root
\* split writes it
InitFit ==
  \E degree \in FitDegrees, nodeType \in {NodeTypeLeaf, NodeTypeInternal} :
    /\ disk = << setNumKeys(setNodeType(NewPage, nodeType),
                            IF nodeType = NodeTypeLeaf THEN 0 ELSE 1) >>
    /\ pager = [fileSize |-> PageSize, numPages |-> 1]
    /\ tree = [rootPageID |-> 0, degree |-> degree]
    /\ inserted = {}
    /\ op = [name |-> "New", key |-> 0, value |-> 0, err |-> "nil"]
    /\ log = << >>
    /\ failures = 0
    /\ hist = [openSize |-> 0, allocated |-> {}, written |-> {}]
    /\ payment = NoService
    /\ mem = NoMem

\* Insert into a leaf that is not Full (lines 186-189), the new key being
\* the smallest or the largest of the page
FitLeafOp(first) ==
  LET numKeys == getNumKeys(disk[1])
      insertIndex == IF first THEN 0 ELSE numKeys
      r == insertIntoLeafBuffer(numKeys, insertIndex)
  IN /\ isLeaf(disk[1])
     /\ op.err = "nil"
     /\ numKeys < tree.degree - 1
     /\ disk' = IF r = "panic" THEN disk ELSE << setNumKeys(disk[1], numKeys + 1) >>
     /\ op' = [name |-> "insertIntoLeaf", key |-> insertIndex, value |-> 0, err |-> r]
     /\ UNCHANGED << pager, tree, inserted, log, failures, hist, payment, mem >>

\* insertIntoParent on an internal page that is not Full (lines 314-333), the
\* promoted key being the smallest or the largest of the page
FitParentOp(first) ==
  LET numKeys == getNumKeys(disk[1])
      insertIndex == IF first THEN 0 ELSE numKeys
      r == insertIntoParentBuffer(numKeys, insertIndex)
  IN /\ ~isLeaf(disk[1])
     /\ op.err = "nil"
     /\ numKeys < tree.degree - 1
     /\ disk' = IF r = "panic" THEN disk ELSE << setNumKeys(disk[1], numKeys + 1) >>
     /\ op' = [name |-> "insertIntoParent", key |-> insertIndex, value |-> 0, err |-> r]
     /\ UNCHANGED << pager, tree, inserted, log, failures, hist, payment, mem >>

NextFit ==
  \/ \E first \in BOOLEAN : FitLeafOp(first)
  \/ \E first \in BOOLEAN : FitParentOp(first)
SpecFit == InitFit /\ [][NextFit]_vars

\* main of part_002: the index is built, saved with SaveToFile and loaded
\* with LoadFromFile; the keys 1..MaxFileKey are inserted in any order, key
\* with the offset 10 * key
FileKeys == 1..MaxFileKey

FileInsertOp(key) ==
  /\ mem.loaded = NoMemTree
  /\ MemInsertOp(key, 10 * key)

\* tree.SaveToFile(indexFile), the range over nodeMap taken in any of
\* MapOrders
MemSaveOp ==
  /\ mem.file = NoFile
  /\ mem.err = "nil"
  /\ \E mapOrder \in
         (IF mem.tree.root = Nil THEN {<< >>}
          ELSE MapOrders(Len(MemLevelOrder(mem.tree.heap, << mem.tree.root >>,
                                           << >>, 2 * Len(mem.tree.heap) + 1)))) :
       LET r == MemSaveToFile(mem.tree, mem.file, mapOrder) IN
       /\ mem' = [mem EXCEPT !.file = r.file, !.err = r.err]
       /\ op' = [name |-> "SaveToFile", key |-> 0, value |-> 0, err |-> r.err]
  /\ UNCHANGED << disk, pager, tree, inserted, log, failures, hist, payment >>

\* LoadFromFile(indexFile)
MemLoadOp ==
  LET r == MemLoadFromFile(mem.file) IN
  /\ mem.loaded = NoMemTree
  /\ mem.err = "nil"
  /\ mem' = [mem EXCEPT !.loaded = r.tree, !.err = r.err]
  /\ op' = [name |-> "LoadFromFile", key |-> 0, value |-> 0, err |-> r.err]
  /\ UNCHANGED << disk, pager, tree, inserted, log, failures, hist, payment >>

NextFile ==
  \/ \E key \in FileKeys : FileInsertOp(key)
  \/ MemSaveOp
  \/ MemLoadOp
SpecFile == InitMem /\ [][NextFile]_vars

\* the two programs given the same degree and the same Inserts: the page
\* file of part_000 and the in-memory tree of part_002
InitBoth ==
  \E degree \in Degrees :
    LET c == NewBPlusTree(NewPager(<< >>), degree) IN
    /\ disk = c.m.disk
    /\ pager = PagerOf(c.m)
    /\ tree = c.tree
    /\ inserted = {}
    /\ op = [name |-> "New", key |-> 0, value |-> 0, err |-> "nil"]
    /\ log = c.m.log
    /\ failures = 0
    /\ hist = [openSize |-> 0, allocated |-> {}, written |-> {}]
    /\ payment = NoService
    /\ mem = [NoMem EXCEPT !.tree = MemNewBPlusTree(degree).tree]

\* Insert(key, value) of a key not inserted before, on both trees
BothInsertOp(key, value) ==
  LET r == Insert(Machine(0), tree, key, value) IN
  /\ pager.numPages < MaxPages
  /\ \A e \in inserted : e[1] # key
  /\ disk' = r.m.disk
  /\ pager' = PagerOf(r.m)
  /\ tree' = r.tree
  /\ mem' = [mem EXCEPT !.tree = MemInsert(@, key, value)]
  /\ inserted' = inserted \cup {<< key, value >>}
  /\ op' = [name |-> "Insert", key |-> key, value |-> value, err |-> r.err]
  /\ log' = r.m.log
  /\ UNCHANGED << failures, hist, payment >>

NextBoth == \E key \in Keys, value \in Values : BothInsertOp(key, value)
SpecBoth == InitBoth /\ [][NextBoth]_vars

\* keys and ranges the claims are probed with

\* the offsets of the inserted pairs with a <= k <= b, in ascending key order
RECURSIVE InsertedInRange(_, _)
InsertedInRange(a, b) ==
  IF a > b THEN << >>
  ELSE (IF \E v \in Values : << a, v >> \in inserted
        THEN << CHOOSE v \in Values : << a, v >> \in inserted >>
        ELSE << >>) \o InsertedInRange(a + 1, b)

InsertOk == op.name = "Insert" /\ op.err = "nil"
HasSplitInternal == \E id \in InternalIDs : ~isRoot(PageOf(id))
Height == IF LeavesUnder(tree.rootPageID, 1, Len(disk)) = {} THEN 0
          ELSE CHOOSE d \in 1..Len(disk) :
                 \E l \in LeavesUnder(tree.rootPageID, 1, Len(disk)) : l[2] = d

(* -------------------------------- claims ------------------------------- *)
\* C1: right after Insert(k, v) returns success, Search(k) returns (v, true)
\* and Search of every other key returns what it returned before the Insert.
C1_SearchAfterInsert ==
  [][(op'.name = "Insert" /\ op'.err = "nil") =>
       /\ SearchAt(disk', pager', tree', op'.key)
            = [offset |-> op'.value, found |-> TRUE, err |-> "nil"]
       /\ \A k \in ProbeKeys \ {op'.key} :
            SearchAt(disk', pager', tree', k) = SearchAt(disk, pager, tree, k)]_vars

\* C2: for every a <= b, SearchRange(a, b) returns exactly the offsets of the
\* inserted pairs with a <= k <= b, each once, in ascending key order.
C2_RangeEqualsFilter ==
  \A a \in ProbeKeys, b \in ProbeKeys :
    a <= b => SearchRangeNow(a, b) = [results |-> InsertedInRange(a, b), err |-> "nil"]

\* C3: separator correctness (I4): in every internal page, every key stored
\* in a leaf reachable through Pi is >= Ki (i > 0) and < K(i+1) (i < n).
C3_SeparatorCorrectness ==
  \A id \in InternalIDs :
    LET page == PageOf(id)
        K == Separators(page)
        P == Pointers(page)
    IN \A i \in 0..Len(K) : \A k \in KeysUnder(P[i + 1]) :
         /\ (i > 0 => k >= K[i])
         /\ (i < Len(K) => k < K[i + 1])

\* C4: ordering within a node (I2): the live keys of every leaf page and of
\* every internal page are strictly increasing.
C4_OrderedWithinNode ==
  /\ \A id \in LeafIDs : StrictlyIncreasing(LeafKeys(PageOf(id)))
  /\ \A id \in InternalIDs : StrictlyIncreasing(Separators(PageOf(id)))

\* C5: Insert of a key already stored in some leaf fails with the
\* duplicate-key error, and the keys stored across all leaves are pairwise
\* distinct (I3).
C5_DuplicateRejected ==
  [][/\ (op'.name = "Insert" /\ op'.key \in AllLeafKeys) => op'.err = "DuplicateKey"
     /\ \A k \in AllLeafKeys' : NumLeafEntries(k)' = 1]_vars

\* C6: an Insert that returns the duplicate-key error wrote and allocated
\* nothing: the file, the Pager's numPages and fileSize and the tree's
\* rootPageID are unchanged, and Search of the key still returns the offset
\* stored for it.
C6_DuplicateLeavesFileUnchanged ==
  [][(op'.name = "Insert" /\ op'.err = "DuplicateKey") =>
       /\ disk' = disk /\ pager' = pager /\ tree' = tree
       /\ SearchAt(disk', pager', tree', op'.key) = SearchAt(disk, pager, tree, op'.key)
       /\ SearchAt(disk, pager, tree, op'.key).found
       /\ SearchAt(disk, pager, tree, op'.key).err = "nil"
       /\ << op'.key, SearchAt(disk, pager, tree, op'.key).offset >> \in inserted]_vars

\* a duplicate Insert with a value other than the stored one was refused
C6_Witness ==
  /\ op.name = "Insert" /\ op.err = "DuplicateKey"
  /\ SearchNow(op.key).found /\ SearchNow(op.key).offset # op.value
  /\ Len(disk) > 1

\* C7: persistence (R3): a new Pager and a new tree over the same file give,
\* for every key and every range, the results the original tree gave.
C7_ReopenSameResults ==
  [][op'.name = "Reopen" =>
       /\ \A k \in ProbeKeys :
            SearchAt(disk', pager', tree', k) = SearchAt(disk, pager, tree, k)
       /\ \A a \in ProbeKeys, b \in ProbeKeys :
            SearchRangeAt(disk', pager', tree', a, b) = SearchRangeAt(disk, pager, tree, a, b)]_vars

\* C8: leaf chain (I5): from the leftmost leaf, next_leaf_page_id visits
\* every leaf page exactly once, the visited keys are strictly ascending,
\* and the walk ends at -1.
C8_LeafChain ==
  /\ LeafChain.end = -1
  /\ Range(LeafChain.leaves) = LeafIDs
  /\ Len(LeafChain.leaves) = Cardinality(LeafIDs)
  /\ StrictlyIncreasing(Concat(LeafChain.leaves, 1))

\* C9: parent back-pointers and unique root (I6): exactly one page has
\* is_root = 1, it has parent -1 and is the tree's rootPageID, and every
\* other page has as parent an internal page that lists it as a live child.
C9_ParentPointers ==
  /\ Cardinality({id \in PageIDs : isRoot(PageOf(id))}) = 1
  /\ tree.rootPageID \in PageIDs
  /\ isRoot(PageOf(tree.rootPageID))
  /\ getParentPageID(PageOf(tree.rootPageID)) = -1
  /\ \A id \in PageIDs \ {tree.rootPageID} :
       LET par == getParentPageID(PageOf(id)) IN
       /\ par \in InternalIDs
       /\ id \in Range(Pointers(PageOf(par)))

\* an internal page other than the root exists: leaves, internal pages and
\* the root have all split
C9_Witness == InsertOk /\ HasSplitInternal

\* C10: balance (I1): following child pointers from the root, every leaf
\* page is reached, all after the same number of pages.
C10_Balance ==
  LET reached == LeavesUnder(tree.rootPageID, 1, Len(disk)) IN
  /\ {l[1] : l \in reached} = LeafIDs
  /\ \A l1 \in reached, l2 \in reached : l1[2] = l2[2]

\* a tree of three levels
C10_Witness == InsertOk /\ Height >= 3

\* C11: fullness bound (I7): every page has num_keys <= D - 1, and every
\* internal page has num_keys + 1 live child pointers: its pointer slots
\* name num_keys + 1 different pages, which are the pages whose parent it is.
C11_FullnessBound ==
  /\ \A id \in PageIDs : getNumKeys(PageOf(id)) <= tree.degree - 1
  /\ \A id \in InternalIDs :
       LET P == Pointers(PageOf(id)) IN
       /\ Range(P) \subseteq PageIDs
       /\ Cardinality(Range(P)) = getNumKeys(PageOf(id)) + 1
       /\ Range(P) = {c \in PageIDs : getParentPageID(PageOf(c)) = id}

\* a full leaf and a full internal page exist after a successful Insert
C11_Witness ==
  /\ InsertOk
  /\ \E id \in LeafIDs : getNumKeys(PageOf(id)) = tree.degree - 1
  /\ \E id \in InternalIDs : getNumKeys(PageOf(id)) = tree.degree - 1

\* some page read or page write of the last call failed
SomeFailed(l) == \E i \in 1..Len(l) : l[i].ev \in {"read", "write"} /\ ~l[i].ok

\* C12: an Insert during which a ReadPage or a WritePage failed returns an
\* error: it never returns success after one of its page reads or writes
\* failed.
C12_FailureSurfaced ==
  [][(op'.name = "Insert" /\ SomeFailed(log')) => op'.err # "nil"]_vars

\* the pages the call allocated
Created(l) == {l[i].id : i \in {j \in 1..Len(l) : l[j].ev = "alloc"}}

\* page id was written, the write returning without error, before entry j
WrittenBefore(l, id, j) ==
  \E i \in 1..(j - 1) : l[i].ev = "write" /\ l[i].id = id /\ l[i].ok

\* C13: write ordering within one Insert: a page the Insert created is
\* written before any write of a page that lists it as a child, and
\* root_page_id changes only to a page whose write has returned without
\* error, a page of the file.
C13_WriteOrdering ==
  [][op'.name = "Insert" =>
       /\ \A j \in 1..Len(log') :
            log'[j].ev = "write" =>
              \A c \in log'[j].children \cap Created(log') :
                WrittenBefore(log', c, j)
       /\ tree'.rootPageID # tree.rootPageID =>
            /\ WrittenBefore(log', tree'.rootPageID, Len(log') + 1)
            /\ tree'.rootPageID < Len(disk')]_vars

\* the last Insert split a leaf below an existing parent, split that parent
\* and made a new root, which lists the internal page it created
C13_Witness ==
  /\ op.name = "Insert"
  /\ Cardinality(Created(log)) = 3
  /\ tree.rootPageID \in Created(log)
  /\ \E j \in 1..Len(log) :
       /\ log[j].ev = "write"
       /\ log[j].id = tree.rootPageID
       /\ log[j].children \cap Created(log) # {}

\* page id of the file d
PageAt(d, id) == d[id + 1]

\* the pages a call created by splitting: those it allocated, except the
\* new root
NewHalves(l, root) == Created(l) \ {root}

\* the page a split page n was split off: the two halves are written one
\* after the other, the rewritten page first
FirstWrite(l, id) ==
  CHOOSE j \in 1..Len(l) :
    /\ l[j].ev = "write" /\ l[j].id = id
    /\ \A i \in 1..(j - 1) : ~(l[i].ev = "write" /\ l[i].id = id)
OldHalf(l, n) == l[FirstWrite(l, n) - 1].id

\* what every split does, whatever the sizes of the halves: page o was
\* Full, the halves o and n are of one kind, a leaf split keeps all D
\* entries (the promoted key is copied up), an internal split keeps D - 1
\* (the promoted key is moved up), and the parent level takes up one key
\* for the pair: a new root of one key over o and n, or a parent with room
\* that gains one key and lists n, or a Full parent that is split in turn
SplitShape(d, d2, t2, l, o, n) ==
  LET D == t2.degree
      P == getParentPageID(PageAt(d, o))
      ko == getNumKeys(PageAt(d2, o))
      kn == getNumKeys(PageAt(d2, n))
  IN /\ getNumKeys(PageAt(d, o)) = D - 1
     /\ PageAt(d2, o).nodeType = PageAt(d2, n).nodeType
     /\ ko + kn = IF isLeaf(PageAt(d2, o)) THEN D ELSE D - 1
     /\ IF P = -1
        THEN /\ t2.rootPageID \in Created(l)
             /\ getNumKeys(PageAt(d2, t2.rootPageID)) = 1
             /\ ChildrenOf(PageAt(d2, t2.rootPageID)) = {o, n}
        ELSE IF getNumKeys(PageAt(d, P)) < D - 1
        THEN /\ getNumKeys(PageAt(d2, P)) = getNumKeys(PageAt(d, P)) + 1
             /\ n \in ChildrenOf(PageAt(d2, P))
        ELSE \E n2 \in NewHalves(l, t2.rootPageID) :
               /\ OldHalf(l, n2) = P
               /\ n \in ChildrenOf(PageAt(d2, P)) \cup ChildrenOf(PageAt(d2, n2))

\* C14 as stated: every split of a Full page, of a leaf or of an internal
\* page, produces two pages of the same level that both have
\* num_keys < D - 1, plus exactly one promoted key for the parent level.
C14_SplitBothUnderfilled ==
  [][op'.name = "Insert" =>
       \A n \in NewHalves(log', tree'.rootPageID) :
         LET o == OldHalf(log', n) IN
         /\ SplitShape(disk, disk', tree', log', o, n)
         /\ getNumKeys(PageAt(disk', o)) < tree'.degree - 1
         /\ getNumKeys(PageAt(disk', n)) < tree'.degree - 1]_vars

\* C14, amended: every split of a Full page produces two pages of the same
\* level, the rewritten page with D div 2 keys and the new page with
\* D - D div 2 keys (leaf) or D - 1 - D div 2 keys (internal), plus exactly
\* one promoted key for the parent level; both halves have
\* num_keys < D - 1, except the new leaf at D = 3, which has 2 = D - 1 keys.
C14_SplitHalves ==
  [][op'.name = "Insert" =>
       \A n \in NewHalves(log', tree'.rootPageID) :
         LET o == OldHalf(log', n)
             D == tree'.degree
             ko == getNumKeys(PageAt(disk', o))
             kn == getNumKeys(PageAt(disk', n))
             leaf == isLeaf(PageAt(disk', n))
         IN /\ SplitShape(disk, disk', tree', log', o, n)
            /\ ko = D \div 2
            /\ kn = IF leaf THEN D - D \div 2 ELSE D - 1 - D \div 2
            /\ ko < D - 1
            /\ IF leaf /\ D = 3 THEN kn = D - 1 ELSE kn < D - 1]_vars

\* the last Insert split a leaf and an internal page
C14_Witness ==
  /\ InsertOk
  /\ \E n \in NewHalves(log, tree.rootPageID) : isLeaf(PageOf(n))
  /\ \E n \in NewHalves(log, tree.rootPageID) : ~isLeaf(PageOf(n))

\* the number of levels of the tree of file d under page id, counted down
\* the first child pointers
RECURSIVE DepthFrom(_, _, _)
DepthFrom(d, id, fuel) ==
  IF fuel = 0 \/ isLeaf(PageAt(d, id)) THEN 1
  ELSE 1 + DepthFrom(d, I64(GetU64(PageAt(d, id), headerSize)), fuel - 1)
HeightAt(d, root) == DepthFrom(d, root, Len(d))

\* the Full pages met from page id upwards along parent_page_id, up to the
\* first page that is not Full
RECURSIVE FullChain(_, _, _, _)
FullChain(d, id, D, fuel) ==
  IF id = -1 \/ fuel = 0 \/ getNumKeys(PageAt(d, id)) < D - 1 THEN << >>
  ELSE << id >> \o FullChain(d, getParentPageID(PageAt(d, id)), D, fuel - 1)

\* the first page that is not Full from page id upwards, -1 when every page
\* up to the root is Full
RECURSIVE Absorber(_, _, _, _)
Absorber(d, id, D, fuel) ==
  IF id = -1 \/ fuel = 0 THEN -1
  ELSE IF getNumKeys(PageAt(d, id)) < D - 1 THEN id
  ELSE Absorber(d, getParentPageID(PageAt(d, id)), D, fuel - 1)

\* C15: every Insert returns (no file-system call failing). An Insert that
\* succeeds splits exactly the Full pages from the leaf of the key upwards
\* and stops at the first page that is not Full, which takes one key
\* without being split; when every page up to the root is Full it makes a
\* new root. The height grows by exactly one when a new root is made and
\* is unchanged in every other case.
C15_PromotionEnds ==
  [][op'.name = "Insert" =>
       LET D == tree.degree
           leaf == findLeafPage(Machine(0), tree, op'.key).pageID
           chain == FullChain(disk, leaf, D, Len(disk))
           absorber == Absorber(disk, leaf, D, Len(disk))
           halves == NewHalves(log', tree'.rootPageID)
       IN /\ op'.err \in {"nil", "DuplicateKey"}
          /\ op'.err # "nil" =>
               /\ tree'.rootPageID = tree.rootPageID
               /\ HeightAt(disk', tree'.rootPageID) = HeightAt(disk, tree.rootPageID)
          /\ op'.err = "nil" =>
               /\ {OldHalf(log', n) : n \in halves} = Range(chain)
               /\ Cardinality(halves) = Len(chain)
               /\ IF absorber = -1
                  THEN /\ tree'.rootPageID # tree.rootPageID
                       /\ tree'.rootPageID \in Created(log')
                       /\ HeightAt(disk', tree'.rootPageID)
                            = HeightAt(disk, tree.rootPageID) + 1
                  ELSE /\ tree'.rootPageID = tree.rootPageID
                       /\ getNumKeys(PageAt(disk', absorber))
                            = getNumKeys(PageAt(disk, absorber)) + 1
                       /\ HeightAt(disk', tree'.rootPageID)
                            = HeightAt(disk, tree.rootPageID)]_vars

\* the last Insert split a leaf and the internal root above it and made a
\* new root: the tree is three levels high
C15_Witness ==
  /\ InsertOk
  /\ tree.rootPageID \in Created(log)
  /\ Cardinality(NewHalves(log, tree.rootPageID)) = 2
  /\ HeightAt(disk, tree.rootPageID) = 3

\* the keys inserted so far
InsertedKeys == {e[1] : e \in inserted}

\* C16: after any sequence of Inserts, Search(k) of a key that was never
\* inserted returns (0, false) and no error; Search never reports a key
\* found that was not inserted, and a found offset is one that was inserted
\* with that key.
C16_AbsentKey ==
  \A k \in ProbeKeys :
    LET s == SearchNow(k) IN
    /\ k \notin InsertedKeys => s.offset = 0 /\ ~s.found /\ s.err = "nil"
    /\ s.found => << k, s.offset >> \in inserted

\* in a tree whose root has split, some key was never inserted, between
\* keys that Search finds
C16_Witness ==
  /\ InsertOk
  /\ HeightAt(disk, tree.rootPageID) >= 2
  /\ \E k \in Keys \ InsertedKeys :
       /\ ~SearchNow(k).found
       /\ \E a, b \in InsertedKeys :
            a < k /\ k < b /\ SearchNow(a).found /\ SearchNow(b).found

\* C17: SearchRange(a, b) with a > b returns an empty result and no error
\* without reading any page, whatever the tree holds and whether or not the
\* file system would fail.
C17_EmptyWhenReversed ==
  \A a \in ProbeKeys, b \in ProbeKeys, failAt \in 0..1 :
    a > b =>
      LET r == SearchRange(Machine(failAt), tree, a, b) IN
      r.results = << >> /\ r.err = "nil" /\ r.m.log = << >>

\* SearchRange was called with its bounds reversed on a tree whose root has
\* split and that holds entries between the two bounds
C17_Witness ==
  /\ op.name = "SearchRange"
  /\ op.key > op.value
  /\ log = << >>
  /\ HeightAt(disk, tree.rootPageID) >= 2
  /\ SearchRangeNow(op.value, op.key).results # << >>

\* C18: Search and SearchRange are read-only: whatever they return they
\* issue page reads only, no WritePage and no AllocatePage, and leave the
\* file, the Pager's num_pages and file_size and the tree's root_page_id as
\* they were, so that the same call gives the same result again.
C18_ReadOnly ==
  [][op'.name \in {"Search", "SearchRange"} =>
       /\ \A i \in 1..Len(log') : log'[i].ev = "read"
       /\ disk' = disk
       /\ pager' = pager
       /\ tree' = tree
       /\ op'.name = "Search" =>
            SearchAt(disk', pager', tree', op'.key)
              = SearchAt(disk, pager, tree, op'.key)
       /\ op'.name = "SearchRange" =>
            SearchRangeAt(disk', pager', tree', op'.key, op'.value)
              = SearchRangeAt(disk, pager, tree, op'.key, op'.value)]_vars

\* a read returned an error after reading some page of a tree whose root
\* has split
C18_Witness ==
  /\ op.name \in {"Search", "SearchRange"}
  /\ op.err # "nil"
  /\ Len(log) >= 2
  /\ HeightAt(disk, tree.rootPageID) >= 2

\* C19: AllocatePage returns the num_pages of before the call, adds 1 to
\* num_pages and PAGE_SIZE to file_size and writes nothing; over any
\* interleaving of AllocatePage and WritePage calls the id it returns is
\* above every id it returned before and is the id of no page that was
\* written or that the file holds.
C19_AllocatePage ==
  [][op'.name = "AllocatePage" =>
       /\ op'.key = pager.numPages
       /\ pager'.numPages = pager.numPages + 1
       /\ pager'.fileSize = pager.fileSize + PageSize
       /\ disk' = disk
       /\ \A i \in 1..Len(log') : log'[i].ev = "alloc"
       /\ \A id \in hist.allocated : op'.key > id
       /\ op'.key \notin hist.written
       /\ op'.key >= Len(disk)]_vars

\* AllocatePage returned an id above an id it returned before and above the
\* id of a page that was written past the end of the file
C19_Witness ==
  /\ op.name = "AllocatePage"
  /\ \E id \in hist.allocated : id < op.key
  /\ \E id \in hist.written \ hist.allocated : id < op.key /\ id >= hist.openSize \div PageSize

\* C20: for a Pager opened on a file whose length is a multiple of
\* PAGE_SIZE, file_size = num_pages * PAGE_SIZE after any sequence of
\* AllocatePage and WritePage calls; WritePage of page p changes num_pages
\* only when p >= num_pages, and then to p + 1, which a successful write of
\* such a page does; AllocatePage followed by WritePage of the id it
\* returned adds 1 to num_pages in all, not 2.
C20_SizesAgree ==
  [][hist.openSize % PageSize = 0 =>
       /\ pager.fileSize = pager.numPages * PageSize
       /\ pager'.fileSize = pager'.numPages * PageSize
       /\ op'.name = "WritePage" =>
            /\ pager'.numPages # pager.numPages =>
                 op'.key >= pager.numPages /\ pager'.numPages = op'.key + 1
            /\ (op'.err = "nil" /\ op'.key >= pager.numPages) =>
                 pager'.numPages = op'.key + 1
            /\ (op.name = "AllocatePage" /\ op'.key = op.key) =>
                 pager'.numPages = pager.numPages]_vars

\* a page was allocated and then written without error, and a page past the
\* end of the file was written before
C20_Witness ==
  /\ hist.openSize % PageSize = 0
  /\ op.name = "WritePage" /\ op.err = "nil"
  /\ op.key \in hist.allocated
  /\ pager.numPages = op.key + 1
  /\ \E id \in hist.written \ hist.allocated : id >= hist.openSize \div PageSize

\* C21 as stated: ReadPage(page_id) fails with the read-past-end error
\* exactly when page_id >= num_pages, equivalently when
\* page_id * PAGE_SIZE >= file_size, and then reads nothing from the file;
\* so it does for an id that AllocatePage returned and that was not
\* written yet.
C21_ReadPastEndAsStated ==
  [][op'.name = "ReadPage" =>
       /\ op'.err = "ReadPastEnd" <=> op'.key >= pager.numPages
       /\ op'.key >= pager.numPages <=> op'.key * PageSize >= pager.fileSize
       /\ op'.err = "ReadPastEnd" => op'.value = 0
       /\ op'.key \in hist.allocated \ hist.written => op'.err = "ReadPastEnd"]_vars

\* C21, amended: ReadPage(page_id) fails with the read-past-end error
\* exactly when page_id * PAGE_SIZE >= file_size, which for a file opened
\* with a length that is a multiple of PAGE_SIZE is page_id >= num_pages,
\* and then reads nothing from the file. An id that AllocatePage returned
\* is below num_pages: its read is not refused but goes to the file, where
\* it fails as an I/O error as long as the file ends before that page.
C21_ReadPastEnd ==
  [][op'.name = "ReadPage" =>
       /\ op'.err = "ReadPastEnd" <=> op'.key * PageSize >= pager.fileSize
       /\ hist.openSize % PageSize = 0 =>
            (op'.key >= pager.numPages <=> op'.key * PageSize >= pager.fileSize)
       /\ op'.err = "ReadPastEnd" => op'.value = 0
       /\ op'.key \in hist.allocated =>
            /\ op'.key < pager.numPages
            /\ op'.err # "ReadPastEnd"
            /\ op'.value = 1
            /\ op'.key >= Len(disk) => op'.err = "IoRead"]_vars

\* ReadPage was called with an id that AllocatePage returned and that was
\* not written: the read went to the file and failed there
C21_Witness ==
  /\ op.name = "ReadPage"
  /\ op.key \in hist.allocated \ hist.written
  /\ op.err = "IoRead"
  /\ op.value = 1

\* page is an empty leaf root: node_type leaf, is_root 1, parent -1,
\* num_keys 0, next_leaf -1, payload zero
EmptyLeafRoot(page) ==
  /\ page.nodeType = NodeTypeLeaf
  /\ isRoot(page)
  /\ getParentPageID(page) = -1
  /\ getNumKeys(page) = 0
  /\ getNextLeafPageID(page) = -1
  /\ \A w \in DOMAIN page.payload : page.payload[w] = 0

\* C22: construction. With degree < 3 the constructor rejects and writes
\* no page; with degree >= 3 and num_pages = 0 it writes page 0 as an empty
\* leaf root and num_pages becomes 1; with degree >= 3 and num_pages > 0 it
\* writes nothing and leaves every page as it is. When it accepts,
\* root_page_id = 0.
C22_Construction ==
  [][op'.name = "NewBPlusTree" =>
       LET degree == op'.key IN
       /\ degree < 3 =>
            /\ op'.err = "panic" /\ tree' = NoTree
            /\ disk' = disk /\ pager' = pager /\ log' = << >>
       /\ degree >= 3 =>
            /\ op'.err = "nil"
            /\ tree' = [rootPageID |-> 0, degree |-> degree]
       /\ (degree >= 3 /\ pager.numPages = 0) =>
            /\ Len(disk') = 1
            /\ EmptyLeafRoot(PageAt(disk', 0))
            /\ pager'.numPages = 1
            /\ \E i \in 1..Len(log') :
                 log'[i].ev = "write" /\ log'[i].id = 0 /\ log'[i].ok
       /\ (degree >= 3 /\ pager.numPages > 0) =>
            disk' = disk /\ pager' = pager /\ log' = << >>]_vars

\* the constructor was called on a file that holds a tree of several pages,
\* with a degree it accepts
C22_Witness ==
  /\ op.name = "NewBPlusTree"
  /\ op.err = "nil"
  /\ op.value >= 3
  /\ tree.rootPageID = 0
  /\ InternalIDs # {}

\* C23: a point Search reads exactly one page per tree level: on a tree
\* whose root-to-leaf path has h pages a Search that returns without error
\* has issued exactly h ReadPage calls, none of them for a page it has
\* already read.
C23_OneReadPerLevel ==
  [][(op'.name = "Search" /\ op'.err = "nil") =>
       /\ Len(log') = HeightAt(disk, tree.rootPageID)
       /\ \A i \in 1..Len(log') : \A j \in 1..Len(log') :
            i # j => log'[i].id # log'[j].id]_vars

\* C24: minimum occupancy: after any sequence of Inserts every page but the
\* root is at least half full: an internal page has at least ceil(D / 2)
\* child pointers, a leaf at least floor(D / 2) entries.
C24_MinimumOccupancy ==
  \A id \in PageIDs \ {tree.rootPageID} :
    LET page == PageOf(id)
        D == tree.degree
    IN IF isLeaf(page)
       THEN getNumKeys(page) >= D \div 2
       ELSE /\ getNumKeys(page) + 1 >= (D + 1) \div 2
            /\ Cardinality(Range(Pointers(page))) >= (D + 1) \div 2

\* the tree has three levels, with an internal page below the root that
\* holds no more than ceil(D / 2) child pointers
C24_Witness ==
  /\ InsertOk
  /\ \E id \in InternalIDs \ {tree.rootPageID} :
       getNumKeys(PageOf(id)) + 1 = (tree.degree + 1) \div 2
  /\ \E id \in LeafIDs : getNumKeys(PageOf(id)) = tree.degree \div 2

\* C25: a request that arrives while the breaker is OPEN does not reach the
\* payment gateway: fire resolves with the fallback result,
\* PaymentService.processPayment throws an HttpException with status
\* SERVICE_UNAVAILABLE and the controller throws that same exception.
C25_OpenRejects ==
  [][(op'.seq # op.seq /\ payment.state = "OPEN") =>
       /\ payment'.gatewayCalls = payment.gatewayCalls
       /\ op'.result = Fallback
       /\ op'.thrown
       /\ op'.service = HttpException(Fallback.error, SERVICE_UNAVAILABLE)
       /\ op'.response = op'.service]_vars

\* a request was rejected by the OPEN breaker after the gateway had failed
C25_Witness ==
  /\ op.name = "processPayment"
  /\ op.state = "OPEN"
  /\ payment.state = "OPEN"
  /\ payment.gatewayCalls > 0
  /\ op.response.status = SERVICE_UNAVAILABLE

\* the keys a split of page o into o and n can have passed to the parent
\* level: the first key of the new leaf, or a key that neither half of an
\* internal page holds
PromotedKeys(d2, o, n) ==
  IF isLeaf(PageAt(d2, n))
  THEN {LeafKeys(PageAt(d2, n))[1]}
  ELSE (0..MaxKey) \ (Range(Separators(PageAt(d2, o)))
                        \cup Range(Separators(PageAt(d2, n))))

\* C27: when an Insert promotes (key, right_child_id) into an internal page
\* that is not Full, at any position, the page's separators afterwards are
\* the old separators with key inserted at its sorted position, its child
\* pointers are the old pointers with right_child_id inserted immediately
\* after left_child_id, and num_keys has grown by 1.
C27_SpliceKeepsSeparators ==
  [][(op'.name = "Insert" /\ op'.err = "nil") =>
       LET D == tree.degree
           leaf == findLeafPage(Machine(0), tree, op'.key).pageID
           chain == FullChain(disk, leaf, D, Len(disk))
           absorber == Absorber(disk, leaf, D, Len(disk))
       IN (Len(chain) > 0 /\ absorber # -1) =>
            LET left == chain[Len(chain)]
                right == CHOOSE n \in NewHalves(log', tree'.rootPageID) :
                           OldHalf(log', n) = left
                S == Separators(PageAt(disk, absorber))
                P == Pointers(PageAt(disk, absorber))
                S2 == Separators(PageAt(disk', absorber))
                P2 == Pointers(PageAt(disk', absorber))
            IN /\ \E key \in PromotedKeys(disk', left, right), i \in 0..Len(S) :
                    /\ \A j \in 1..i : S[j] < key
                    /\ \A j \in (i + 1)..Len(S) : key < S[j]
                    /\ S2 = InsertAt(S, i, key)
               /\ \E j \in 1..Len(P) :
                    /\ P[j] = left
                    /\ P2 = InsertAt(P, j, right)
               /\ Len(S2) = Len(S) + 1]_vars

\* the entries of a leaf page in page order, and a set of entries in key
\* order
LeafEntrySeq(page) ==
  [i \in 1..getNumKeys(page) |-> << LeafKeys(page)[i], LeafValues(page)[i] >>]
RECURSIVE SortedByKey(_)
SortedByKey(S) ==
  IF S = {} THEN << >>
  ELSE LET e == CHOOSE e \in S : \A f \in S : e[1] <= f[1]
       IN << e >> \o SortedByKey(S \ {e})

\* key was handed to the level above page n: the page that lists n has key
\* as the separator before the pointer to n, or lists n first, and an
\* internal page the call wrote holds key
PromotedInto(d2, l, n, key) ==
  /\ \E Q \in {PageAt(d2, getParentPageID(PageAt(d2, n)))} :
       \E j \in 1..(getNumKeys(Q) + 1) :
         /\ Pointers(Q)[j] = n
         /\ j > 1 => Separators(Q)[j - 1] = key
  /\ \E i \in 1..Len(l) :
       /\ l[i].ev = "write"
       /\ ~isLeaf(PageAt(d2, l[i].id))
       /\ key \in Range(Separators(PageAt(d2, l[i].id)))

\* C28: for every degree D from 3 up, the first D - 1 Inserts of distinct
\* keys into an empty tree split nothing, the file keeps exactly one page;
\* an Insert into a leaf that holds D - 1 keys splits it: the original page
\* keeps the D div 2 smallest of the D entries, one newly allocated page
\* receives the other D - D div 2, both are written with the original's
\* parent_page_id, and the separator handed to the parent level is the first
\* key of the new right leaf, which stays in that leaf.
C28_LeafSplitPolicy ==
  [][op'.name = "Insert" =>
       \A D \in {tree.degree}, s \in {tree.degree \div 2},
          o \in {findLeafPage(Machine(0), tree, op'.key).pageID} :
       \A old \in {PageAt(disk, o)} :
         /\ Cardinality(inserted') <= D - 1 =>
              Len(disk') = 1 /\ pager'.numPages = 1
         /\ (op'.err = "nil" /\ getNumKeys(old) = D - 1) =>
              \A halves \in {{n \in NewHalves(log', tree'.rootPageID) :
                                OldHalf(log', n) = o}},
                 all \in {SortedByKey(Range(LeafEntrySeq(old))
                                        \cup {<< op'.key, op'.value >>})} :
                /\ Cardinality(halves) = 1
                /\ \A n \in halves :
                     /\ Len(all) = D
                     /\ isLeaf(PageAt(disk', o))
                     /\ isLeaf(PageAt(disk', n))
                     /\ LeafEntrySeq(PageAt(disk', o)) = SubSeq(all, 1, s)
                     /\ LeafEntrySeq(PageAt(disk', n)) = SubSeq(all, s + 1, D)
                     /\ log'[FirstWrite(log', o)].parent = getParentPageID(old)
                     /\ log'[FirstWrite(log', n)].parent = getParentPageID(old)
                     /\ PromotedInto(disk', log', n, all[s + 1][1])]_vars

\* the last Insert split a leaf that had a parent, and the new key is among
\* those the original page kept
C28_Witness ==
  /\ InsertOk
  /\ \E n \in NewHalves(log, tree.rootPageID) :
       /\ isLeaf(PageOf(n))
       /\ log[FirstWrite(log, n)].parent # -1
       /\ op.key \in Range(LeafKeys(PageOf(OldHalf(log, n))))

\* C29: for every degree D from 3 up and s = D div 2, an Insert that splits
\* a Full internal page forms D keys and D + 1 pointers by adding the
\* promoted pair to the page's own; the original page keeps keys [0, s) and
\* pointers [0, s + 1), the newly allocated page receives keys [s + 1, D)
\* and pointers [s + 1, D + 1), the key at index s is handed to the parent
\* level and is in neither page, and after the Insert every child the new
\* page lists has the new page's id as its parent_page_id on disk while every
\* child the original page kept has the original page's id.
C29_InternalSplitPolicy ==
  [][(op'.name = "Insert" /\ op'.err = "nil") =>
       \A D \in {tree.degree}, s \in {tree.degree \div 2},
          leaf \in {findLeafPage(Machine(0), tree, op'.key).pageID} :
       \A chain \in {FullChain(disk, leaf, D, Len(disk))},
          halves \in {NewHalves(log', tree'.rootPageID)} :
       \A j \in 2..Len(chain) :
       \A o \in {chain[j]}, left \in {chain[j - 1]} :
       \A n \in {CHOOSE h \in halves : OldHalf(log', h) = o},
          right \in {CHOOSE h \in halves : OldHalf(log', h) = left} :
       \A S \in {Separators(PageAt(disk, o))},
          P \in {Pointers(PageAt(disk, o))},
          So \in {Separators(PageAt(disk', o))},
          Po \in {Pointers(PageAt(disk', o))},
          Sn \in {Separators(PageAt(disk', n))},
          Pn \in {Pointers(PageAt(disk', n))} :
         /\ \E key \in PromotedKeys(disk', left, right), i \in 0..Len(S) :
              \E tempKeys \in {InsertAt(S, i, key)},
                 tempPointers \in {InsertAt(P, i + 1, right)} :
                /\ Len(tempKeys) = D
                /\ Len(tempPointers) = D + 1
                /\ So = SubSeq(tempKeys, 1, s)
                /\ Po = SubSeq(tempPointers, 1, s + 1)
                /\ Sn = SubSeq(tempKeys, s + 2, D)
                /\ Pn = SubSeq(tempPointers, s + 2, D + 1)
                /\ tempKeys[s + 1] \notin Range(So) \cup Range(Sn)
                /\ PromotedInto(disk', log', n, tempKeys[s + 1])
         /\ \A c \in Range(Pn) : getParentPageID(PageAt(disk', c)) = n
         /\ \A c \in Range(Po) : getParentPageID(PageAt(disk', c)) = o]_vars

\* the last Insert split an internal page
C29_Witness ==
  /\ InsertOk
  /\ \E n \in NewHalves(log, tree.rootPageID) :
       /\ ~isLeaf(PageOf(n))
       /\ ~isLeaf(PageOf(OldHalf(log, n)))
       /\ \A c \in Range(Pointers(PageOf(n))) : getParentPageID(PageOf(c)) = n

\* C30: an Insert that splits a leaf leaves the new right leaf with the
\* next_leaf_page_id the original leaf had before the split, whether -1 or
\* the id of a leaf, the original leaf with the new page's id as its
\* next_leaf_page_id, and the next_leaf_page_id of every other leaf as it
\* was.
C30_SiblingStitching ==
  [][(op'.name = "Insert" /\ op'.err = "nil") =>
       LET o == findLeafPage(Machine(0), tree, op'.key).pageID IN
       \A n \in NewHalves(log', tree'.rootPageID) :
         OldHalf(log', n) = o =>
           /\ getNextLeafPageID(PageAt(disk', n))
                = getNextLeafPageID(PageAt(disk, o))
           /\ getNextLeafPageID(PageAt(disk', o)) = n
           /\ log'[FirstWrite(log', n)].next = getNextLeafPageID(PageAt(disk, o))
           /\ log'[FirstWrite(log', o)].next = n
           /\ \A c \in PageIDs \ {o} :
                isLeaf(PageAt(disk, c)) =>
                  /\ isLeaf(PageAt(disk', c))
                  /\ getNextLeafPageID(PageAt(disk', c))
                       = getNextLeafPageID(PageAt(disk, c))]_vars

\* the last Insert split a leaf that had a next leaf, which the new right
\* leaf now points to
C30_Witness ==
  /\ InsertOk
  /\ \E n \in NewHalves(log, tree.rootPageID) :
       /\ isLeaf(PageOf(n))
       /\ getNextLeafPageID(PageOf(n)) \in LeafIDs
       /\ getNextLeafPageID(PageOf(OldHalf(log, n))) = n
       /\ getNextLeafPageID(PageOf(n)) \notin {n, OldHalf(log, n)}

\* the offsets key * 10 of the keys a..b that are among the n inserted
AscRange(a, b, n) ==
  [i \in 1..(Min(b, n) - Max(a, 1) + 1) |-> (Max(a, 1) + i - 1) * 10]

\* C31: after every Insert of the ascending sequence 1, 2, ..., n with
\* offsets 10 * key into an empty tree of degree 4, the invariants I1 to I7
\* hold, Search(k) returns (10 * k, true) for every inserted k, SearchRange
\* returns the offsets of the inserted keys in range in key order, after 7
\* keys three linked leaves lie under one internal root with two
\* separators, and from 10 keys on the tree has height 3.
C31_AscendingInserts ==
  \A n \in {Cardinality(inserted)} :
    /\ C10_Balance
    /\ C4_OrderedWithinNode
    /\ \A k \in AllLeafKeys : NumLeafEntries(k) = 1
    /\ C3_SeparatorCorrectness
    /\ C8_LeafChain
    /\ C9_ParentPointers
    /\ \A id \in PageIDs : getNumKeys(PageOf(id)) <= tree.degree - 1
    /\ \A k \in 1..n :
         SearchNow(k) = [offset |-> 10 * k, found |-> TRUE, err |-> "nil"]
    /\ \A k \in {0} \cup ((n + 1)..(MaxAscending + 1)) : ~SearchNow(k).found
    /\ \A a \in 0..(MaxAscending + 1), b \in 0..(MaxAscending + 1) :
         a <= b => SearchRangeNow(a, b)
                     = [results |-> AscRange(a, b, n), err |-> "nil"]
    /\ n = 7 =>
         /\ Cardinality(LeafIDs) = 3
         /\ Len(LeafChain.leaves) = 3
         /\ InternalIDs = {tree.rootPageID}
         /\ getNumKeys(PageOf(tree.rootPageID)) = 2
    /\ n >= 10 => Height = 3

\* the ten keys are in: the internal root has split and the tree is three
\* levels high
C31_Witness ==
  /\ InsertOk
  /\ Cardinality(inserted) = 10
  /\ Height = 3
  /\ SearchRangeNow(2, 6).results = << 20, 30, 40, 50, 60 >>


\* what tree.Insert(10, .), (20, .), (30, .), (40, .) leaves of a fresh index
\* file at degree 4
RootSplitExample ==
  LET c == NewBPlusTree(NewPager(<< >>), 4)
      r1 == Insert(c.m, c.tree, 10, 100)
      r2 == Insert(r1.m, r1.tree, 20, 200)
      r3 == Insert(r2.m, r2.tree, 30, 300)
      r4 == Insert(r3.m, r3.tree, 40, 400)
  IN r4

\* C32: when an Insert splits the page that is the root, leaf or internal, a
\* newly allocated page becomes the root: it is internal, has is_root = 1,
\* parent -1, num_keys = 1 and the payload left child, key, right child, the
\* left child being the old root and the right child the page split off it;
\* both children have is_root = 0 and the new page's id as parent_page_id,
\* and root_page_id is the new page's id. At degree 4 the keys 10, 20, 30, 40
\* give leaves 0 = [10, 20] and 1 = [30, 40] under root page 2 with
\* separator 30.
C32_RootSplitOutcome ==
  [][/\ (op'.name = "Insert" /\ op'.err = "nil") =>
          \A o \in {tree.rootPageID} :
          \A n \in {h \in NewHalves(log', tree'.rootPageID) : OldHalf(log', h) = o} :
          \A newRoot \in {pager'.numPages - 1} :
          \A page \in {PageAt(disk', newRoot)},
             left \in {PageAt(disk', o)}, right \in {PageAt(disk', n)} :
            /\ newRoot >= pager.numPages
            /\ tree'.rootPageID = newRoot
            /\ ~isLeaf(page)
            /\ page.isRoot = 1
            /\ getParentPageID(page) = -1
            /\ getNumKeys(page) = 1
            /\ Pointers(page) = << o, n >>
            /\ Separators(page)[1] \in PromotedKeys(disk', o, n)
            /\ \A w \in 3..(PayloadWords - 1) : page.payload[w] = 0
            /\ left.isRoot = 0 /\ getParentPageID(left) = newRoot
            /\ right.isRoot = 0 /\ getParentPageID(right) = newRoot
            /\ isLeaf(left) = isLeaf(PageAt(disk, o))
            /\ isLeaf(right) = isLeaf(left)
            /\ \A id \in 0..(Len(disk') - 1) : isRoot(PageAt(disk', id)) <=> id = newRoot
     /\ op.name = "New" =>
        \A r \in {RootSplitExample} :
          /\ r.err = "nil"
          /\ r.tree.rootPageID = 2
          /\ Len(r.m.disk) = 3
          /\ LeafEntrySeq(PageAt(r.m.disk, 0)) = << << 10, 100 >>, << 20, 200 >> >>
          /\ LeafEntrySeq(PageAt(r.m.disk, 1)) = << << 30, 300 >>, << 40, 400 >> >>
          /\ ~isLeaf(PageAt(r.m.disk, 2))
          /\ Separators(PageAt(r.m.disk, 2)) = << 30 >>
          /\ Pointers(PageAt(r.m.disk, 2)) = << 0, 1 >>
          /\ PageAt(r.m.disk, 2).isRoot = 1
          /\ \A id \in {0, 1} :
               /\ PageAt(r.m.disk, id).isRoot = 0
               /\ isLeaf(PageAt(r.m.disk, id))
               /\ getParentPageID(PageAt(r.m.disk, id)) = 2]_vars

\* the last Insert split an internal root: the tree has grown to three
\* levels under a new root of one key
C32_Witness ==
  /\ InsertOk
  /\ Height = 3
  /\ tree.rootPageID = pager.numPages - 1
  /\ getNumKeys(PageOf(tree.rootPageID)) = 1
  /\ \A c \in Range(Pointers(PageOf(tree.rootPageID))) :
       ~isLeaf(PageOf(c)) /\ getParentPageID(PageOf(c)) = tree.rootPageID
  /\ \E e \in Range(log) : e.ev = "alloc" /\ e.id = tree.rootPageID


\* the positions of the log l at which AllocatePage returned the page id
AllocsOf(l, id) == {a \in 1..Len(l) : l[a].ev = "alloc" /\ l[a].id = id}
\* a WritePage of id that returned without error, between positions a and b
WrittenBetween(l, id, a, b) ==
  \E w \in (a + 1)..(b - 1) : l[w].ev = "write" /\ l[w].id = id /\ l[w].ok

\* C33: within an Insert, whether or not a file-system call fails, no page
\* id AllocatePage returned is passed to ReadPage before a WritePage of that
\* id has returned without error; when the Insert returns success every id
\* it allocated has been written so, and every id below num_pages is then a
\* page of the file that a WritePage has filled.
C33_WriteBeforeRead ==
  [][op'.name = "Insert" =>
       \A l \in {log'} :
         /\ \A i \in 1..Len(l) :
              l[i].ev = "read" =>
                \A a \in AllocsOf(l, l[i].id) :
                  a < i => WrittenBetween(l, l[i].id, a, i)
         /\ op'.err = "nil" =>
              /\ \A a \in 1..Len(l) :
                   l[a].ev = "alloc" => WrittenBetween(l, l[a].id, a, Len(l) + 1)
              /\ Len(disk') = pager'.numPages
              /\ \A id \in 0..(pager'.numPages - 1) : PageAt(disk', id) # NewPage]_vars

\* an Insert in which a file-system call failed has returned success after
\* it allocated a page, wrote it and read it back
C33_Witness ==
  /\ InsertOk
  /\ failures > 0
  /\ \E i \in 1..Len(log) :
       /\ log[i].ev = "read"
       /\ \E a \in AllocsOf(log, log[i].id) : a < i


\* the concatenation of the sequences of a sequence
RECURSIVE Flatten(_)
Flatten(ss) == IF ss = << >> THEN << >> ELSE Head(ss) \o Flatten(Tail(ss))

\* the leaf entries (key, offset) of the file d, page after page
AllLeafEntries(d) ==
  Flatten([i \in 1..Len(d) |-> IF isLeaf(d[i]) THEN LeafEntrySeq(d[i]) ELSE << >>])

\* the number of entries of the sequence S equal to e
CountIn(S, e) == Cardinality({i \in DOMAIN S : S[i] = e})

\* the number of leaf entries equal to e in the leaf pages of the file d
EntryCount(d, e) == CountIn(AllLeafEntries(d), e)

\* C34: with no I/O failure, in any order of Inserts, the leaf pages hold
\* the successfully inserted (key, offset) pairs and no other entry; an
\* Insert that returns success adds one entry, the pair it was called with,
\* and an Insert that returns an error adds none; no Insert, splitting or
\* not, removes an entry or changes its offset.
C34_LeafEntriesConserved ==
  [][\A before \in {AllLeafEntries(disk)}, after \in {AllLeafEntries(disk')} :
       /\ Range(after) = inserted'
       /\ Len(after) = Len(before) + (IF op'.err = "nil" THEN 1 ELSE 0)
       /\ \A e \in Range(before) \cup {<< op'.key, op'.value >>} :
            CountIn(after, e) =
              CountIn(before, e)
                + (IF op'.err = "nil" /\ e = << op'.key, op'.value >>
                   THEN 1 ELSE 0)]_vars

\* the last Insert split a leaf that is not the first of the chain, and
\* every pair inserted so far is in exactly one leaf entry
C34_Witness ==
  /\ InsertOk
  /\ Cardinality(inserted) >= 4
  /\ \E n \in NewHalves(log, tree.rootPageID) :
       /\ isLeaf(PageOf(n))
       /\ OldHalf(log, n) # 0
  /\ \A e \in inserted : EntryCount(disk, e) = 1


\* the leaf of file d reached from page id by following P0
RECURSIVE LeftmostAt(_, _, _)
LeftmostAt(d, id, fuel) ==
  IF id < 0 \/ id >= Len(d) \/ fuel = 0 THEN -1
  ELSE IF isLeaf(PageAt(d, id)) THEN id
  ELSE LeftmostAt(d, Pointers(PageAt(d, id))[1], fuel - 1)

\* C35: no step lowers num_pages or changes the kind of a page of the file;
\* page 0 is a leaf, the leaf reached from the root along the first child
\* pointers, and the next_leaf_page_id of no leaf; root_page_id is 0 exactly
\* when no page but page 0 has been allocated, that is while no split has
\* occurred.
C35_PagesKeepTheirKind ==
  [][/\ pager'.numPages >= pager.numPages
     /\ Len(disk') >= Len(disk)
     /\ \A id \in PageIDs : isLeaf(PageAt(disk', id)) <=> isLeaf(PageOf(id))
     /\ isLeaf(PageAt(disk', 0))
     /\ LeftmostAt(disk', tree'.rootPageID, Len(disk')) = 0
     /\ \A id \in 0..(Len(disk') - 1) :
          isLeaf(PageAt(disk', id)) => getNextLeafPageID(PageAt(disk', id)) # 0
     /\ tree'.rootPageID = 0 <=> pager'.numPages = 1]_vars


\* C36 to C39 are about the in-memory tree of mem.

\* C37: in the in-memory tree, for every degree and every order of Inserts,
\* Search(k) returns (off, true) after Insert(k, off) and after every later
\* Insert, and an Insert of a key that was inserted before leaves the tree
\* as it was.
C37_MemSearchAfterInsert ==
  [][op'.name = "Insert" =>
       /\ \A e \in inserted' :
            MemSearch(mem'.tree, e[1]) = [offset |-> e[2], found |-> TRUE]
       /\ op'.key \in InsertedKeys => mem'.tree = mem.tree]_vars

\* C38: in the in-memory tree every node that an internal node lists among
\* its pointers has that internal node as its parent, after leaf splits,
\* after splits of internal nodes and after a split of an internal root,
\* and the root has no parent.
C38_MemParentPointers ==
  \A t \in {mem.tree} :
    /\ t.root # Nil => t.heap[t.root].parent = Nil
    /\ \A p \in DOMAIN t.heap :
         ~t.heap[p].isLeaf =>
           \A j \in DOMAIN t.heap[p].pointers :
             t.heap[t.heap[p].pointers[j]].parent = p


\* the keys of the pages of the file, level by level from the pages ids, left
\* to right
RECURSIVE DiskShape(_, _)
DiskShape(ids, fuel) ==
  IF ids = << >> \/ fuel = 0 THEN << >>
  ELSE << [i \in DOMAIN ids |->
             IF isLeaf(PageOf(ids[i])) THEN LeafKeys(PageOf(ids[i]))
             ELSE Separators(PageOf(ids[i]))] >>
         \o DiskShape(Flatten([i \in DOMAIN ids |->
                                 IF isLeaf(PageOf(ids[i])) THEN << >>
                                 ELSE Pointers(PageOf(ids[i]))]), fuel - 1)

\* the keys of the nodes of the in-memory tree, level by level, left to right
RECURSIVE MemShape(_, _, _)
MemShape(h, ns, fuel) ==
  IF ns = << >> \/ fuel = 0 THEN << >>
  ELSE << [i \in DOMAIN ns |-> h[ns[i]].keys] >>
         \o MemShape(h, Flatten([i \in DOMAIN ns |->
                                   IF h[ns[i]].isLeaf THEN << >>
                                   ELSE h[ns[i]].pointers]), fuel - 1)

\* C36: given the same degree and the same Inserts of distinct keys, in any
\* order, the page file and the in-memory tree hold the same keys in the same
\* nodes, level by level and left to right, and Search of every key and
\* SearchRange of every range return the same in both.
C36_SameTree ==
  InsertOk =>
    /\ DiskShape(<< tree.rootPageID >>, Len(disk))
         = MemShape(mem.tree.heap, << mem.tree.root >>, Len(mem.tree.heap))
    /\ \A k \in ProbeKeys :
         /\ SearchNow(k).err = "nil"
         /\ SearchNow(k).found = MemSearch(mem.tree, k).found
         /\ SearchNow(k).offset = MemSearch(mem.tree, k).offset
    /\ \A a \in ProbeKeys, b \in ProbeKeys :
         /\ SearchRangeNow(a, b).err = "nil"
         /\ SearchRangeNow(a, b).results = MemSearchRange(mem.tree, a, b).results


\* the leaf reached from node n along the first pointers
RECURSIVE MemLeftmost(_, _, _)
MemLeftmost(h, n, fuel) ==
  IF n = Nil \/ fuel = 0 THEN Nil
  ELSE IF h[n].isLeaf THEN n
  ELSE MemLeftmost(h, h[n].pointers[1], fuel - 1)

\* the (key, offset) entries met along the next pointers from leaf n
RECURSIVE MemChainEntries(_, _, _)
MemChainEntries(h, n, fuel) ==
  IF n = Nil \/ fuel = 0 THEN << >>
  ELSE [i \in DOMAIN h[n].keys |-> << h[n].keys[i], h[n].pointers[i] >>]
         \o MemChainEntries(h, h[n].next, fuel - 1)

MemLeafChain(t) ==
  MemChainEntries(t.heap, MemLeftmost(t.heap, t.root, Len(t.heap)), Len(t.heap))

\* C39: LoadFromFile of the file SaveToFile wrote for a non-empty tree gives
\* a tree of the same degree in which Search of every key and SearchRange of
\* every range return what they return in the saved tree and whose leaf
\* chain holds the same keys in the same order; SaveToFile of an empty tree
\* returns an error and writes no file, and of a non-empty tree none.
C39_SaveLoadRoundTrip ==
  /\ op.name = "SaveToFile" =>
       IF mem.tree.root = Nil THEN op.err # "nil" /\ mem.file = NoFile
       ELSE op.err = "nil" /\ mem.file # NoFile
  /\ (op.name = "LoadFromFile" /\ mem.file # NoFile) =>
       \A t \in {mem.tree}, l \in {mem.loaded} :
         /\ op.err = "nil"
         /\ l.degree = t.degree
         /\ \A k \in 0..(MaxFileKey + 1) : MemSearch(l, k) = MemSearch(t, k)
         /\ \A a \in 0..(MaxFileKey + 1), b \in 0..(MaxFileKey + 1) :
              MemSearchRange(l, a, b) = MemSearchRange(t, a, b)
         /\ MemLeafChain(l) = MemLeafChain(t)

\* a tree of three levels was saved with its nodes out of id order and
\* loaded, and a range over several leaves is found in the loaded tree
C39_Witness ==
  /\ op.name = "LoadFromFile"
  /\ op.err = "nil"
  /\ mem.file.Nodes[1].NodeID # 0
  /\ ~mem.loaded.heap[mem.loaded.root].isLeaf
  /\ ~mem.loaded.heap[mem.loaded.heap[mem.loaded.root].pointers[1]].isLeaf
  /\ Len(MemSearchRange(mem.loaded, 2, MaxFileKey).results) >= 3


\* C40: for every degree the constructor accepts, a Full node fits in the
\* page: a leaf of D - 1 entries ends at byte 32 + 16 * (D - 1) <= 4096, an
\* internal page of D - 1 separators at byte 32 + 8 + 16 * (D - 1) <= 4096,
\* and no insertion into a page that is not Full writes or moves an entry
\* past the end of the 4096-byte buffer.
C40_FullNodeFits ==
  \A D \in {tree.degree}, numKeys \in {getNumKeys(disk[1])} :
    /\ op.err = "nil"
    /\ IF isLeaf(disk[1]) THEN headerSize + 16 * numKeys <= PageSize
       ELSE headerSize + 8 + 16 * numKeys <= PageSize
    /\ numKeys = D - 1 =>
         /\ headerSize + 16 * (D - 1) <= PageSize
         /\ headerSize + 8 + 16 * (D - 1) <= PageSize

====
